---- MODULE Spec2Model ----
(***************************************************************************)
(* Model of the ingestion pipeline of gdrive-assistant-bot:                *)
(*   core/ingest/service.py  IngestService (_ingest_one_file, run_once,    *)
(*                           run_loop)                                     *)
(*   rag.py                  RAGStore (chunk_text, _point_uuid,            *)
(*                           upsert_document, delete_by_file_id,           *)
(*                           exists_file_mtime)                            *)
(*   ingest.py               _install_signal_handlers                      *)
(* The scheduler thread of run_once, the worker tasks of its thread pool   *)
(* and the signal handler are separate processes; every shared read or     *)
(* write (the stop event, the store, a future's result) is one step.       *)
(***************************************************************************)
EXTENDS Integers, Sequences, FiniteSets, TLC

(***************************************************************************)
(* Bounds of the model.                                                    *)
(***************************************************************************)
\* longest listing list_files returns in one cycle
MaxFiles == 2
\* largest value of settings.INGEST_WORKERS explored
MaxWorkers == 2

\* file ids of the remote drive
FileIds == {"f1", "f2"}
\* version tokens; "" is a descriptor without modified_time (service.py:104)
MTimes == {"", "m1"}

(***************************************************************************)
(* Program constants.                                                      *)
(***************************************************************************)
\* rag.py:78  upsert_document(..., chunk_size: int = 900, ...)
chunk_size == 900
\* rag.py:79  upsert_document(..., chunk_overlap: int = 120)
chunk_overlap == 120

\* characters str.split() and str.strip() treat as whitespace
Whitespace == {" ", "\n"}

Min(S) == CHOOSE x \in S : \A y \in S : x <= y

Rep(c, n) == [i \in 1..n |-> c]

(***************************************************************************)
(* Texts an extractor may return (ExtractedContent.text).  States refer to *)
(* a text by its index in this table.                                      *)
(*   1  whitespace only                                                    *)
(*   2  901 raw characters that collapse to 900: one chunk                 *)
(*   3  901 characters: two chunks                                         *)
(*   4  the empty text                                                     *)
(***************************************************************************)
Texts ==
  << << " ", "\n" >>,
     Rep("a", 898) \o << " ", " ", "b" >>,
     Rep("a", 901),
     << >> >>

TextIds == DOMAIN Texts

(***************************************************************************)
(* rag.py:50-64  RAGStore.chunk_text                                       *)
(***************************************************************************)
\* text.split(): the maximal runs of non-whitespace characters, in order
RECURSIVE split(_)
split(text) ==
  LET n == Len(text)
      nonws == {i \in 1..n : text[i] \notin Whitespace}
  IN  IF nonws = {} THEN << >>
      ELSE LET s == Min(nonws)
               ws == {i \in s..n : text[i] \in Whitespace}
               e == IF ws = {} THEN n ELSE Min(ws) - 1
           IN  << SubSeq(text, s, e) >> \o split(SubSeq(text, e + 1, n))

\* " ".join(words)
RECURSIVE join(_)
join(words) ==
  IF words = << >> THEN << >>
  ELSE IF Len(words) = 1 THEN words[1]
  ELSE words[1] \o << " " >> \o join(Tail(words))

\* mutant of slice: the slice runs to the end of the text
slice_to_end(text, i, j) == SubSeq(text, i + 1, Len(text))

\* text[i : i + max_chars] with Python's 0-based, clamped slice
slice(text, i, j) ==
  SubSeq(text, i + 1, IF j < Len(text) THEN j ELSE Len(text))

\* the while loop of chunk_text (rag.py:61-63)
RECURSIVE chunk_loop(_, _, _, _, _)
chunk_loop(text, max_chars, step, i, chunks) ==
  IF i < Len(text)
  THEN chunk_loop(text, max_chars, step, i + step,
                  Append(chunks, slice(text, i, i + max_chars)))
  ELSE chunks

chunk_text(text0, max_chars, overlap) ==
  LET text == join(split(text0))
  IN  IF text = << >> THEN << >>
      ELSE IF Len(text) <= max_chars THEN << text >>
      ELSE LET step == IF max_chars - overlap > 1 THEN max_chars - overlap ELSE 1
           IN  chunk_loop(text, max_chars, step, 0, << >>)

\* not result.text.strip()  (service.py:134)
is_blank(text) == \A i \in 1..Len(text) : text[i] \in Whitespace

\* chunk_text and the blank test tabulated once for the texts of the table
ChunkTable == [t \in TextIds |-> chunk_text(Texts[t], chunk_size, chunk_overlap)]
BlankTable == [t \in TextIds |-> is_blank(Texts[t])]


(***************************************************************************)
(* State.                                                                  *)
(***************************************************************************)
VARIABLES
  stop_event,      \* threading.Event shared by every component
  signal_sets,     \* history: stop_event.set() calls made by the signal handler
  store,           \* the collection: point id -> point
  INGEST_WORKERS,  \* settings.INGEST_WORKERS
  loop_pc,         \* position of the scheduler thread in run_loop / run_once
  list_error,      \* the exception list_files raised in run_once, "" if none
  files,           \* run_once: files = list(provider.list_files(...))
  total,           \* run_once: total = len(files)
  workers,         \* run_once: workers = min(settings.INGEST_WORKERS, total)
  it,              \* run_once: it = iter(files), as the count of items taken
  in_flight,       \* run_once: in_flight, futures named by their list index
  done,            \* run_once: the part of `done` the for loop has not reached
  submitted_up_front, \* run_once: iterations made by `for _ in range(workers)`
  stats,           \* run_once: ok, fail, skipped_*, completed
  tasks            \* one entry per submitted _ingest_one_file call

\* core/ingest/limiter.py  RateLimiter and the threads calling acquire
VARIABLES
  rate,            \* self.rate, in token units per clock tick
  capacity,        \* self.capacity, in token units
  tokens,          \* self.tokens, in token units
  updated,         \* self.updated
  lock,            \* self.lock: 0 when free, else the thread holding it
  clock,           \* time.monotonic()
  granted,         \* history: the acquire() calls that returned, by time
  acq              \* one record per thread: its position in acquire()

\* providers/google_drive/api.py  one execute_with_backoff call
VARIABLES
  retries,         \* settings.STORAGE_GOOGLE_DRIVE_BACKOFF_RETRIES
  base_delay,      \* settings.STORAGE_GOOGLE_DRIVE_BACKOFF_BASE_DELAY_SECONDS
  max_delay,       \* settings.STORAGE_GOOGLE_DRIVE_BACKOFF_MAX_DELAY_SECONDS
  bo               \* the call: position, attempt, counts, delay, outcome

\* providers/google_drive/provider.py  one list_files call
VARIABLES
  drive,           \* the remote: folder id -> its children, in listing order
  listing          \* the call: mode, roots, filter, position, locals, output

\* extractors/registry.py  an ExtractorRegistry and one get_extractor call
VARIABLES
  registry,        \* the registry: _extractors and _mime_map
  lookup           \* the get_extractor call: the file asked about, the answer

\* providers/google_drive/clients.py  one thread and its _thread_local
VARIABLES
  thread_local,    \* slot name -> what the slot holds, 0 when unset
  gtc              \* the get_thread_clients call: apis, position, history

\* rag.py:30-48  the remote collection and one _ensure_collection call
VARIABLES
  qdrant,          \* the remote: whether the collection exists, its indexes
  ens              \* the call: position, the probe's outcome, what it created

\* rag.py:50-64  one chunk_text call
VARIABLES
  chunking         \* the call: arguments, position, returned chunks

\* extractors/__init__.py  what init_extractors registered
VARIABLES
  extractor_bags   \* the metadata bags the registered extractors return

\* core/ingest/service.py:196-303  the progress events of one run_once
VARIABLES
  prog             \* the run: settings, counters, clock, the events logged

ingest_vars == << store, INGEST_WORKERS, loop_pc, list_error, files, total,
                  workers, it, in_flight, done, submitted_up_front, stats, tasks >>

limiter_vars == << rate, capacity, tokens, updated, lock, clock, granted, acq >>

backoff_vars == << retries, base_delay, max_delay, bo >>

listing_vars == << drive, listing >>

registry_vars == << registry, lookup >>

clients_vars == << thread_local, gtc >>

collection_vars == << qdrant, ens >>

\* the components that do not read the stop event
library_vars == << registry_vars, clients_vars, collection_vars, chunking,
                  extractor_bags, prog >>

\* the components with specifications of their own
component_vars == << limiter_vars, backoff_vars, listing_vars, library_vars >>

\* everything but the ingestion service and the stop event
provider_vars == << signal_sets, component_vars >>

vars == << stop_event, ingest_vars, provider_vars >>

sched_vars == << loop_pc, list_error, files, total, workers, it, in_flight, done,
                 submitted_up_front, stats >>

(***************************************************************************)
(* providers/base.py:31-41  StorageFileMeta, reduced to the fields the     *)
(* pipeline branches on.                                                   *)
(***************************************************************************)
StorageFileMeta == [id : FileIds, modified_time : MTimes]

\* metadata bags the extractors of the registry return: none of their keys
\* (original_mime, extension, file_size_bytes, slide_count, engine, skipped,
\* size_bytes, mime_type) is a key of the payload built in service.py:137-143
MetadataBags == { [original_mime |-> "text/plain"] }

\* {**a, **b}
dict_merge(a, b) ==
  [k \in DOMAIN a \cup DOMAIN b |-> IF k \in DOMAIN b THEN b[k] ELSE a[k]]

(***************************************************************************)
(* rag.py  RAGStore.  A point is its payload plus the task that wrote it   *)
(* (`writer`, history only: the list index of the task in the current      *)
(* run_once, 0 for a point left by an earlier run).  The payload keys      *)
(* text, source and ts are not read by any store operation and are left    *)
(* out.                                                                    *)
(***************************************************************************)
\* mutant of _point_uuid: the chunk index is left out of the name
_point_uuid_no_index(doc_id, chunk_idx) == << doc_id, 0 >>

\* rag.py:66-69: uuid5 of "gdrive-assistant-bot:{doc_id}:{chunk_idx}"; the
\* name determines the pair, and the hash is taken to be collision free
_point_uuid(doc_id, chunk_idx) == << doc_id, chunk_idx >>

\* mutant of exists_file_mtime: the scroll never finds a point
exists_never(st, file_id, modified_time) == FALSE

\* rag.py:145-159
exists_file_mtime(st, file_id, modified_time) ==
  \E p \in DOMAIN st :
     /\ st[p].payload["file_id"] = file_id
     /\ st[p].payload["modified_time"] = modified_time

\* rag.py:134-143
delete_by_file_id(st, file_id) ==
  [p \in {q \in DOMAIN st : st[q].payload["file_id"] # file_id} |-> st[p]]

\* rag.py:71-100: the points built from the chunks of text number `text`
upsert_points(doc_id, text, payload, writer) ==
  LET chunks == ChunkTable[text]
  IN  [p \in {_point_uuid(doc_id, idx) : idx \in 0..(Len(chunks) - 1)} |->
         [payload |-> dict_merge([chunk |-> p[2]], payload), writer |-> writer]]

upsert_document(st, doc_id, text, payload, writer) ==
  LET points == upsert_points(doc_id, text, payload, writer)
  IN  [p \in DOMAIN st \cup DOMAIN points |->
         IF p \in DOMAIN points THEN points[p] ELSE st[p]]

(***************************************************************************)
(* Tasks: one record per file handed to executor.submit.                   *)
(*   pc      position in _ingest_one_file                                  *)
(*   result  the future's outcome: "" while running, an IngestStatus, or   *)
(*           the exception the call raised                                 *)
(*   text, metadata  the ExtractedContent held between extract and upsert  *)
(*   calls   history: store calls made by the task, in order               *)
(*   extracted  history: extractor.extract was invoked                     *)
(*   before  history: writers of the points of this file id that were in   *)
(*           the store when the task called delete_by_file_id              *)
(*   submits history: how many times the list entry was submitted          *)
(*   late    history: the stop event was set when executor.submit ran      *)
(*   oversize  history: the size of the file as the extractor read it was  *)
(*           above the extractor's byte cap                                *)
(*   downloaded  history: the extractor called a download helper           *)
(***************************************************************************)
Statuses == {"ok", "failed", "skipped_unchanged", "skipped_empty",
             "skipped_unsupported", "skipped_stopped"}

Raised == {"ShutdownRequested", "Exception"}

NoTask == [pc |-> "idle", result |-> "", text |-> 0, metadata |-> << >>,
           calls |-> << >>, extracted |-> FALSE, before |-> {}, submits |-> 0,
           late |-> FALSE, oversize |-> FALSE, downloaded |-> FALSE]

ZeroStats == [ok |-> 0, fail |-> 0, skipped_unchanged |-> 0, skipped_empty |-> 0,
              skipped_unsupported |-> 0, skipped_stopped |-> 0, completed |-> 0]

(***************************************************************************)
(* The components below are exercised by specifications of their own;     *)
(* while the ingestion service runs they rest in the state of a limiter    *)
(* just constructed, no backoff call and no listing under way.             *)
(***************************************************************************)
\* token units per token: tokens are counted in halves
TokenUnit == 2

\* no acquire() call has returned.  read counts the calls by the clock
\* value they read under the lock (limiter.py:28), at by the clock value
\* when they returned
NoGrants == [read |-> << >>, at |-> << >>]

\* limiter.py:17-23  RateLimiter.__init__(rate = r, burst = b), at clock `now`
RateLimiterInit(r, b, now) ==
  /\ granted = NoGrants
  /\ rate = r
  /\ capacity = b
  /\ tokens = b
  /\ updated = now
  /\ lock = 0
  /\ clock = now

LimiterAtRest == RateLimiterInit(1, TokenUnit, 0) /\ acq = << >>

\* api.py:23: no execute_with_backoff call under way
NoCall == [pc |-> "idle", attempt |-> 0, acquires |-> 0, calls |-> 0,
           status |-> 0, delay |-> 0, slept |-> 0, result |-> ""]

BackoffAtRest == retries = 0 /\ base_delay = 1 /\ max_delay = 1 /\ bo = NoCall

\* provider.py:41: no list_files call under way
NoListing == [pc |-> "idle"]

ListingAtRest == drive = << >> /\ listing = NoListing

\* registry.py:9-13: an empty registry, no lookup under way
EmptyRegistry == [_extractors |-> << >>, _mime_map |-> << >>]

NoLookup == [pc |-> "idle"]

RegistryAtRest == registry = EmptyRegistry /\ lookup = NoLookup

\* clients.py:25: a thread that never asked for a client
NoClientsCall == [pc |-> "idle"]

ClientsAtRest == thread_local = << >> /\ gtc = NoClientsCall

\* rag.py:30: no _ensure_collection call under way
NoEnsure == [pc |-> "idle"]

CollectionAtRest == qdrant = << >> /\ ens = NoEnsure

\* rag.py:51: no chunk_text call under way
NoChunking == [pc |-> "idle"]

\* extractors/__init__.py:25-53: the extractors of this repository are the
\* ones registered
BuiltinExtractors == extractor_bags = MetadataBags

\* service.py:159: no run_once whose progress events are followed
NoProgress == [pc |-> "idle"]

ProgressAtRest == prog = NoProgress

LibraryAtRest ==
  /\ RegistryAtRest
  /\ ClientsAtRest
  /\ CollectionAtRest
  /\ chunking = NoChunking
  /\ BuiltinExtractors
  /\ ProgressAtRest

Init ==
  /\ stop_event = FALSE
  /\ signal_sets = 0
  /\ store = << >>
  /\ INGEST_WORKERS \in 1..MaxWorkers
  /\ loop_pc = "loop_test"
  /\ list_error = ""
  /\ files = << >>
  /\ total = 0
  /\ workers = 0
  /\ it = 0
  /\ in_flight = {}
  /\ done = {}
  /\ submitted_up_front = 0
  /\ stats = ZeroStats
  /\ tasks = << >>
  /\ LimiterAtRest
  /\ BackoffAtRest
  /\ ListingAtRest
  /\ LibraryAtRest


(***************************************************************************)
(* ingest.py:562-571  _install_signal_handlers._handler                    *)
(***************************************************************************)
\* most stop_event.set() calls of the handler that are followed
MaxSignals == 2

\* mutant of handler_sets: the handler does not test the event
handler_sets_always(is_set) == TRUE

\* ingest.py:564: the handler goes on to stop_event.set()
handler_sets(is_set) == ~is_set

\* SIGTERM or SIGINT is delivered: the handler tests the event and, when it
\* is not set, logs and sets it
SignalStop ==
  /\ signal_sets < MaxSignals
  /\ IF handler_sets(stop_event)
       THEN stop_event' = TRUE /\ signal_sets' = signal_sets + 1
       ELSE UNCHANGED << stop_event, signal_sets >>
  /\ UNCHANGED << component_vars, store, INGEST_WORKERS, sched_vars, tasks >>

(***************************************************************************)
(* service.py:351-354  IngestService.run_loop                              *)
(***************************************************************************)
\* while not stop_event.is_set(): self.run_once(limiter, stop_event)
LoopTest ==
  /\ loop_pc = "loop_test"
  /\ loop_pc' = IF stop_event THEN "returned" ELSE "listing"
  /\ UNCHANGED << provider_vars, stop_event, store, INGEST_WORKERS, list_error, files, total, workers, it,
                  in_flight, done, submitted_up_front, stats, tasks >>

\* stop_event.wait(timeout=settings.INGEST_POLL_SECONDS) returns, on the
\* signal or on the timeout
Poll ==
  /\ loop_pc = "poll"
  /\ loop_pc' = "loop_test"
  /\ UNCHANGED << provider_vars, stop_event, store, INGEST_WORKERS, list_error, files, total, workers,
                  it, in_flight, done, submitted_up_front, stats, tasks >>

(***************************************************************************)
(* service.py:159-349  IngestService.run_once                              *)
(***************************************************************************)
\* the lists provider.list_files can produce: one descriptor per listed
\* entry, in any order; the provider does not deduplicate file ids
Listings == UNION {[1..n -> StorageFileMeta] : n \in 0..MaxFiles}

\* service.py:182
pool_size(configured, n) == IF configured < n THEN configured ELSE n

\* service.py:160-202: the listing succeeded
ListFiles ==
  /\ loop_pc = "listing"
  /\ \E fs \in Listings :
       IF Len(fs) = 0
       THEN /\ loop_pc' = "poll"
            /\ UNCHANGED << files, total, workers, tasks >>
       ELSE /\ loop_pc' = "submit_up_front"
            /\ files' = fs
            /\ total' = Len(fs)
            /\ workers' = pool_size(INGEST_WORKERS, Len(fs))
            /\ tasks' = [i \in 1..Len(fs) |-> NoTask]
  /\ UNCHANGED << provider_vars, stop_event, store, INGEST_WORKERS, list_error, it, in_flight, done,
                  submitted_up_front, stats >>

\* mutant of after_list_error: the error is logged and swallowed
after_list_error_swallowed(error) == "poll"

\* service.py:163-170: where run_once goes after `except Exception` caught
\* the error of list_files: it logs and re-raises, and run_loop has no handler
after_list_error(error) == "raised"

\* service.py:161-170: list_files raised.  The listing goes through
\* execute_with_backoff (provider.py:163, 244), whose limiter.acquire raises
\* ShutdownRequested once the stop event is set (api.py:25, limiter.py:26,43);
\* any other error is a failure of the remote or of the client
ListFilesFails ==
  /\ loop_pc = "listing"
  /\ \E error \in Raised :
       /\ error = "ShutdownRequested" => stop_event
       /\ list_error' = error
       /\ loop_pc' = after_list_error(error)
  /\ UNCHANGED << provider_vars, stop_event, store, INGEST_WORKERS, files, total, workers,
                  it, in_flight, done, submitted_up_front, stats, tasks >>

\* mutant of can_submit: the stop test of submit_one is missing
can_submit_unchecked(stop, taken, listed) == taken < Len(listed)

\* service.py:205-210: the tests of submit_one let it go on to executor.submit
can_submit(stop, taken, listed) == ~stop /\ taken < Len(listed)

\* mutant of next_item: the iterator is never advanced
next_item_first(taken) == 1

\* service.py:208: f = next(it), as the list index it yields
next_item(taken) == taken + 1

\* service.py:208-216  submit_one(executor) past its tests: f = next(it),
\* executor.submit, in_flight.add.  The signal handler runs on the scheduler's
\* own thread between two of its instructions, so the stop event may have
\* been set since the test of line 205
submit_one(inf, tk) ==
  /\ it' = it + 1
  /\ in_flight' = inf \cup {next_item(it)}
  /\ tasks' = [tk EXCEPT ![next_item(it)] =
                 [@ EXCEPT !.pc = "start", !.submits = @ + 1,
                           !.late = stop_event]]

\* service.py:262-263: the future leaves in_flight and fut_meta; only its
\* outcome is kept
collected(fut) ==
  [tasks EXCEPT ![fut] = [@ EXCEPT !.pc = "collected", !.calls = << >>,
                                   !.extracted = FALSE, !.before = {},
                                   !.oversize = FALSE, !.downloaded = FALSE]]

\* mutant of up_front: the up-front loop runs once too often
up_front_one_more(w) == w + 1

\* service.py:251 range(workers)
up_front(w) == w

\* service.py:251-253, 205-210: `for _ in range(workers)` calls submit_one,
\* which tests the stop event and the iterator
SubmitUpFront ==
  /\ loop_pc = "submit_up_front"
  /\ loop_pc' = IF submitted_up_front < up_front(workers)
                    /\ can_submit(stop_event, it, files)
                 THEN "up_front_submit" ELSE "wait"
  /\ UNCHANGED << provider_vars, stop_event, store, INGEST_WORKERS, list_error, files, total, workers,
                  it, in_flight, done, submitted_up_front, stats, tasks >>

\* service.py:208-216 within the up-front loop
UpFrontSubmit ==
  /\ loop_pc = "up_front_submit"
  /\ submit_one(in_flight, tasks)
  /\ submitted_up_front' = submitted_up_front + 1
  /\ loop_pc' = "submit_up_front"
  /\ UNCHANGED << provider_vars, stop_event, store, INGEST_WORKERS, list_error, files, total, workers,
                  done, stats >>

\* mutant of drained: the loop ends with one future still in flight
drained_early(inf) == Cardinality(inf) <= 1

\* service.py:255: `while in_flight` ends
drained(inf) == inf = {}

\* service.py:255-259: `while in_flight` and wait(..., FIRST_COMPLETED); a
\* timeout with nothing done only logs progress and waits again
Wait ==
  /\ loop_pc = "wait"
  /\ IF drained(in_flight)
     THEN loop_pc' = "ingest_done" /\ done' = done
     ELSE /\ done' = {f \in in_flight : tasks[f].pc = "finished"}
          /\ done' # {}
          /\ loop_pc' = "collect"
  /\ UNCHANGED << provider_vars, stop_event, store, INGEST_WORKERS, list_error, files, total, workers,
                  it, in_flight, submitted_up_front, stats, tasks >>

\* mutant of counter_of: `except Exception` does not count the failure
counter_of_lenient(result) ==
  CASE result = "ok" -> "ok"
    [] result = "failed" -> "fail"
    [] result = "skipped_unchanged" -> "skipped_unchanged"
    [] result = "skipped_unsupported" -> "skipped_unsupported"
    [] result = "skipped_stopped" -> "skipped_stopped"
    [] result = "ShutdownRequested" -> "skipped_stopped"
    [] OTHER -> "skipped_empty"

\* mutant of counter_of: ShutdownRequested falls under `except Exception`
counter_of_shutdown_fails(result) ==
  CASE result = "ok" -> "ok"
    [] result = "failed" -> "fail"
    [] result = "skipped_unchanged" -> "skipped_unchanged"
    [] result = "skipped_unsupported" -> "skipped_unsupported"
    [] result = "skipped_stopped" -> "skipped_stopped"
    [] result = "ShutdownRequested" -> "fail"
    [] result = "Exception" -> "fail"
    [] OTHER -> "skipped_empty"

\* service.py:267-285: the counter a future's outcome increments
counter_of(result) ==
  CASE result = "ok" -> "ok"
    [] result = "failed" -> "fail"
    [] result = "skipped_unchanged" -> "skipped_unchanged"
    [] result = "skipped_unsupported" -> "skipped_unsupported"
    [] result = "skipped_stopped" -> "skipped_stopped"
    [] result = "ShutdownRequested" -> "skipped_stopped"
    [] result = "Exception" -> "fail"
    [] OTHER -> "skipped_empty"

\* mutant of count_completed: a collected task counts twice
count_completed_twice(n) == n + 2

\* service.py:298
count_completed(n) == n + 1

\* service.py:261-301, 205-210: the body of `for fut in done` for one future,
\* up to the tests of the submit_one call that ends it
Collect ==
  /\ loop_pc = "collect"
  /\ \E fut \in done :
       LET result == tasks[fut].result
           stop == stop_event \/ result = "ShutdownRequested"
           c == counter_of(result)
       IN  /\ done' = done \ {fut}
           /\ stop_event' = stop
           /\ stats' = [stats EXCEPT ![c] = @ + 1,
                                     !.completed = count_completed(@)]
           /\ in_flight' = in_flight \ {fut}
           /\ tasks' = collected(fut)
           /\ loop_pc' = IF can_submit(stop, it, files) THEN "collect_submit"
                          ELSE IF done' = {} THEN "wait" ELSE "collect"
  /\ UNCHANGED << provider_vars, store, INGEST_WORKERS, list_error, files, total, workers, it,
                  submitted_up_front >>

\* service.py:208-216 within the collecting loop
CollectSubmit ==
  /\ loop_pc = "collect_submit"
  /\ submit_one(in_flight, tasks)
  /\ loop_pc' = IF done = {} THEN "wait" ELSE "collect"
  /\ UNCHANGED << provider_vars, stop_event, store, INGEST_WORKERS, list_error, files, total, workers,
                  done, submitted_up_front, stats >>

\* service.py:303, 330-349: the forced progress event, the ingest_done
\* event, and the return of run_once, which ends the life of its locals
IngestDone ==
  /\ loop_pc = "ingest_done"
  /\ loop_pc' = "poll"
  /\ files' = << >>
  /\ total' = 0
  /\ workers' = 0
  /\ it' = 0
  /\ submitted_up_front' = 0
  /\ stats' = ZeroStats
  /\ tasks' = << >>
  /\ store' = [p \in DOMAIN store |-> [store[p] EXCEPT !.writer = 0]]
  /\ UNCHANGED << provider_vars, stop_event, INGEST_WORKERS, list_error, in_flight, done >>


(***************************************************************************)
(* service.py:95-157  IngestService._ingest_one_file, run by a pool thread *)
(* for the task of list entry i.                                           *)
(***************************************************************************)
\* the call returns `result` or raises it: the future is done
finish(i, result) ==
  [tasks EXCEPT ![i] = [@ EXCEPT !.pc = "finished", !.result = result,
                                 !.text = 0, !.metadata = << >>]]

finish_after(i, call, result) ==
  [tasks EXCEPT ![i] = [@ EXCEPT !.pc = "finished", !.result = result,
                                 !.text = 0, !.metadata = << >>,
                                 !.calls = Append(@, call)]]

\* service.py:98-99
Start(i) ==
  /\ tasks[i].pc = "start"
  /\ tasks' = IF stop_event
              THEN finish(i, "skipped_stopped")
              ELSE [tasks EXCEPT ![i].pc = "exists"]
  /\ UNCHANGED << provider_vars, stop_event, store, INGEST_WORKERS, sched_vars >>

\* service.py:106: the existence check is made
checks_mtime(mtime) == mtime # ""

\* service.py:109-118: get_extractor finds an extractor or returns None
Lookup(i, tk) ==
  \E supported \in BOOLEAN :
     tasks' = IF supported
              THEN [tk EXCEPT ![i].pc = "extract"]
              ELSE [tk EXCEPT ![i] = [@ EXCEPT !.pc = "finished",
                                               !.result = "skipped_unsupported"]]

\* service.py:101-118
Exists(i) ==
  /\ tasks[i].pc = "exists"
  /\ LET fid == files[i].id
         mtime == files[i].modified_time
         called == [tasks EXCEPT ![i].calls = Append(@, "exists_file_mtime")]
     IN  IF checks_mtime(mtime)
         THEN \/ tasks' = finish_after(i, "exists_file_mtime", "Exception")
              \/ /\ exists_file_mtime(store, fid, mtime)
                 /\ tasks' = finish_after(i, "exists_file_mtime", "skipped_unchanged")
              \/ /\ ~exists_file_mtime(store, fid, mtime)
                 /\ Lookup(i, called)
         ELSE Lookup(i, tasks)
  /\ UNCHANGED << provider_vars, stop_event, store, INGEST_WORKERS, sched_vars >>

\* largest file size, in the unit of ByteCap
MaxFileSize == 3
\* the extractor's max_bytes: int(<FORMAT>_MAX_FILE_SIZE_MB * 1024 * 1024)
ByteCap == 2

\* file_meta["size"] as _to_int returns it; 0 stands for None and for 0
FileSizes == 0..MaxFileSize

\* the empty text, as an index of Texts
EmptyText == CHOOSE t \in TextIds : Texts[t] = << >>

\* mutant of refused: the size is never held against the cap
refused_never(size, max_bytes) == FALSE

\* text.py:112, pdf.py:36, office/word.py:35: `if size and size > max_bytes`
refused(size, max_bytes) == size # 0 /\ size > max_bytes

\* text.py:113-115: the ExtractedContent of a refusal, file_type left out
size_limit_content(size) ==
  [text |-> EmptyText, metadata |-> [skipped |-> "size_limit", size_bytes |-> size]]

\* service.py:120-132: build_extraction_context and extractor.extract.  An
\* extractor with a byte cap (text.py:108-128) first holds the size against
\* the cap and returns the refusal without a download; otherwise it
\* downloads and converts.  The download helpers raise ShutdownRequested
\* only when the stop event is set (limiter.py:26,43  api.py:72-73
\* extractors/utils.py:72)
Extract(i) ==
  /\ tasks[i].pc = "extract"
  /\ \/ tasks' = finish(i, "Exception")
     \/ \E size \in FileSizes :
          LET over == size > ByteCap
              entered == [tasks EXCEPT ![i] = [@ EXCEPT !.extracted = TRUE,
                                                        !.oversize = over]]
          IN  IF refused(size, ByteCap)
              THEN tasks' = [entered EXCEPT
                               ![i] = [@ EXCEPT !.pc = "post",
                                                !.text = size_limit_content(size).text,
                                                !.metadata = size_limit_content(size).metadata]]
              ELSE \/ /\ stop_event
                      /\ tasks' = [entered EXCEPT
                                     ![i] = [@ EXCEPT !.pc = "finished",
                                                      !.result = "ShutdownRequested",
                                                      !.downloaded = TRUE]]
                   \/ \E d \in BOOLEAN :
                        tasks' = [entered EXCEPT
                                    ![i] = [@ EXCEPT !.pc = "finished", !.result = "failed",
                                                     !.downloaded = d]]
                   \/ \E t \in TextIds, m \in extractor_bags :
                        tasks' = [entered EXCEPT
                                    ![i] = [@ EXCEPT !.pc = "post", !.text = t,
                                                     !.metadata = m,
                                                     !.downloaded = TRUE]]
  /\ UNCHANGED << provider_vars, stop_event, store, INGEST_WORKERS, sched_vars >>

\* service.py:134-135
Post(i) ==
  /\ tasks[i].pc = "post"
  /\ tasks' = IF stop_event THEN finish(i, "skipped_stopped")
              ELSE IF BlankTable[tasks[i].text] THEN finish(i, "skipped_empty")
              ELSE [tasks EXCEPT ![i].pc = "delete"]
  /\ UNCHANGED << provider_vars, stop_event, store, INGEST_WORKERS, sched_vars >>

\* service.py:137-143
build_payload(fid, mtime, metadata) ==
  dict_merge([file_id |-> fid, modified_time |-> mtime], metadata)

\* mutant of after_delete: the delete call is missing
after_delete_noop(st, fid) == st

\* service.py:144: the store after self.store.delete_by_file_id(fid)
after_delete(st, fid) == delete_by_file_id(st, fid)

\* service.py:144; a store error propagates out of the task
Delete(i) ==
  /\ tasks[i].pc = "delete"
  /\ LET fid == files[i].id
         present == {store[p].writer :
                       p \in {q \in DOMAIN store : store[q].payload["file_id"] = fid}}
     IN  \/ /\ tasks' = finish_after(i, "delete_by_file_id", "Exception")
            /\ store' = store
         \/ /\ tasks' = [tasks EXCEPT ![i] =
                           [@ EXCEPT !.pc = "upsert", !.before = present,
                                     !.calls = Append(@, "delete_by_file_id")]]
            /\ store' = after_delete(store, fid)
  /\ UNCHANGED << provider_vars, stop_event, INGEST_WORKERS, sched_vars >>

\* mutant of status_after_upsert: the call that wrote reports skipped_empty
status_after_upsert_empty == "skipped_empty"

\* service.py:157: the status returned once the document is stored
status_after_upsert == "ok"

\* service.py:145-157; a store error propagates out of the task
Upsert(i) ==
  /\ tasks[i].pc = "upsert"
  /\ LET fid == files[i].id
         payload == build_payload(fid, files[i].modified_time, tasks[i].metadata)
     IN  \/ /\ tasks' = finish_after(i, "upsert_document", "Exception")
            /\ store' = store
         \/ /\ tasks' = finish_after(i, "upsert_document", status_after_upsert)
            /\ store' = upsert_document(store, fid, tasks[i].text, payload,
                                        i)
  /\ UNCHANGED << provider_vars, stop_event, INGEST_WORKERS, sched_vars >>

Next ==
  \/ SignalStop
  \/ LoopTest
  \/ ListFiles
  \/ ListFilesFails
  \/ SubmitUpFront
  \/ UpFrontSubmit
  \/ Wait
  \/ Collect
  \/ CollectSubmit
  \/ IngestDone
  \/ Poll
  \/ \E i \in DOMAIN tasks : Start(i)
  \/ \E i \in DOMAIN tasks : Exists(i)
  \/ \E i \in DOMAIN tasks : Extract(i)
  \/ \E i \in DOMAIN tasks : Post(i)
  \/ \E i \in DOMAIN tasks : Delete(i)
  \/ \E i \in DOMAIN tasks : Upsert(i)

Spec == Init /\ [][Next]_vars

TypeOK ==
  /\ stop_event \in BOOLEAN
  /\ it \in 0..MaxFiles
  /\ list_error \in {""} \cup Raised
  /\ in_flight \subseteq DOMAIN tasks
  /\ done \subseteq in_flight
  /\ \A i \in DOMAIN tasks :
       tasks[i].result \in {""} \cup Statuses \cup Raised


(***************************************************************************)
(* Properties.                                                             *)
(***************************************************************************)
\* the points of the store whose payload names file_id
IdsOf(st, file_id) == {p \in DOMAIN st : st[p].payload["file_id"] = file_id}

\* the list entries of the current run that have been handed to the pool
Submitted == {i \in DOMAIN tasks : tasks[i].pc # "idle"}

StatusSum ==
  stats.ok + stats.fail + stats.skipped_unchanged + stats.skipped_empty
    + stats.skipped_unsupported + stats.skipped_stopped

\* C1: in run_once the tasks submitted and not yet collected never exceed
\* workers = min(INGEST_WORKERS, total): at most `workers` tasks are submitted
\* up front, and every later submission follows a collected completion.
C1_InFlightBounded ==
  LET w == IF INGEST_WORKERS < total THEN INGEST_WORKERS ELSE total
  IN  /\ Cardinality(in_flight) <= w
      /\ submitted_up_front <= w
      /\ it <= submitted_up_front + stats.completed

\* C1 witness: the pool is full after a task was submitted for a collected one
C1_Witness ==
  /\ loop_pc = "wait"
  /\ total > workers
  /\ Cardinality(in_flight) = workers
  /\ stats.completed >= 1
  /\ it = submitted_up_front + stats.completed

\* C2: every listed file is submitted at most once; a run in which the stop
\* event is never set ends with every listed file submitted exactly once and
\* completed = total.
C2_SubmittedOnce ==
  /\ \A i \in DOMAIN tasks : tasks[i].submits <= 1
  /\ (loop_pc = "ingest_done" /\ ~stop_event) =>
        /\ DOMAIN tasks = 1..total
        /\ \A i \in DOMAIN tasks : tasks[i].submits = 1
        /\ stats.completed = total

\* C2 witness: a run of two files ended without a stop
C2_Witness ==
  /\ loop_pc = "ingest_done"
  /\ ~stop_event
  /\ total = 2
  /\ stats.completed = 2
  /\ \A i \in DOMAIN tasks : tasks[i].submits = 1

\* C3 as stated: once the stop event is set, no list entry that has not
\* been submitted is submitted in that run.
C3_NoSubmitAfterStop ==
  [][stop_event =>
       \A i \in DOMAIN tasks \cap DOMAIN tasks' :
          tasks[i].pc = "idle" => tasks'[i].pc = "idle"]_vars

\* the scheduler is past the tests of a submit_one call
SubmitPending == loop_pc \in {"up_front_submit", "collect_submit"}

\* the tasks handed to the pool while the stop event was set
Late(tk) == {i \in DOMAIN tk : tk[i].late}

\* C3 amended: a submit_one call goes past its stop test only while the stop
\* event is not set, so once the event is set only a call already past the
\* test still submits: at most one task of the run is handed to the pool
\* after the stop, and such a task returns skipped_stopped without a store
\* call and without running an extractor.
C3_NoSubmitOnceStopSeen ==
  [][/\ (SubmitPending' /\ ~SubmitPending) => ~stop_event'
     /\ \A i \in DOMAIN tasks \cap DOMAIN tasks' :
          (stop_event /\ tasks[i].pc = "idle" /\ tasks'[i].pc # "idle")
             => SubmitPending
     /\ Cardinality(Late(tasks')) <= 1
     /\ \A i \in Late(tasks) \cap DOMAIN tasks' :
          tasks'[i].pc \in {"start", "finished", "collected"}
            /\ (tasks'[i].pc # "start" =>
                  /\ tasks'[i].result = "skipped_stopped"
                  /\ tasks'[i].calls = << >>
                  /\ ~tasks'[i].extracted)
            /\ (tasks[i].pc = "start" /\ tasks'[i].pc = "finished"
                  => store' = store)]_vars

\* C3 witness: the stop arrived between the test and the submit; the task
\* submitted late was collected as skipped_stopped and the next file was
\* never submitted
C3_Witness ==
  /\ loop_pc = "ingest_done"
  /\ stop_event
  /\ \E i \in DOMAIN tasks :
        /\ tasks[i].late
        /\ tasks[i].pc = "collected"
        /\ tasks[i].result = "skipped_stopped"
  /\ \E i \in DOMAIN tasks : tasks[i].pc = "idle" /\ tasks[i].submits = 0

\* C4: when the stop event is set during a run, at ingest_done every
\* submitted task has been collected: completed is the number of submitted
\* tasks, and the status counters add up to it.
C4_DrainsAfterStop ==
  (loop_pc = "ingest_done" /\ stop_event) =>
     /\ in_flight = {}
     /\ \A i \in Submitted : tasks[i].pc = "collected"
     /\ stats.completed = Cardinality(Submitted)
     /\ stats.completed = it
     /\ StatusSum = stats.completed

\* C4 witness: two tasks were in the pool of a stopped run; one ended ok,
\* the other skipped_stopped, and both are counted
C4_Witness ==
  /\ loop_pc = "ingest_done"
  /\ stop_event
  /\ workers = 2
  /\ stats.completed = 2
  /\ stats.ok = 1
  /\ stats.skipped_stopped = 1

\* C5: a task that ends with an extractor error or with an exception of a
\* store call adds exactly one to fail; the run goes on to submit the
\* remaining files, and run_once raises only when the listing failed.
C5_FailuresCounted ==
  /\ stats.fail = Cardinality({i \in DOMAIN tasks :
                                 /\ tasks[i].pc = "collected"
                                 /\ tasks[i].result \in {"failed", "Exception"}})
  /\ (loop_pc = "ingest_done" /\ ~stop_event) => it = total
  /\ loop_pc = "raised" => (list_error # "" /\ tasks = << >>)

\* C5 witness: with one worker the first file raised, the second was still
\* submitted and ingested
C5_Witness ==
  /\ loop_pc = "ingest_done"
  /\ INGEST_WORKERS = 1
  /\ total = 2
  /\ tasks[1].result = "Exception"
  /\ tasks[2].result = "ok"
  /\ stats.fail = 1
  /\ stats.ok = 1

\* C6: when the existence check is made and finds a point with the
\* descriptor's file id and modified_time, _ingest_one_file returns
\* skipped_unchanged; the check is its only store call, no extractor runs
\* and the store is left as it was.
C6_SkipUnchanged ==
  [][\A i \in DOMAIN tasks \cap DOMAIN tasks' :
       /\ ( /\ tasks[i].pc = "exists"
            /\ tasks'[i].calls = Append(tasks[i].calls, "exists_file_mtime")
            /\ tasks'[i].result # "Exception"
            /\ \E p \in DOMAIN store :
                  /\ store[p].payload["file_id"] = files[i].id
                  /\ store[p].payload["modified_time"] = files[i].modified_time )
          => /\ tasks'[i].pc = "finished"
             /\ tasks'[i].result = "skipped_unchanged"
       /\ (tasks'[i].pc = "finished" /\ tasks'[i].result = "skipped_unchanged")
          => /\ tasks'[i].calls = << "exists_file_mtime" >>
             /\ ~tasks'[i].extracted
             /\ (tasks[i].pc = "exists" => store' = store)]_vars

\* C6 witness: a task returned skipped_unchanged
C6_Witness ==
  \E i \in DOMAIN tasks :
     /\ tasks[i].pc = "finished"
     /\ tasks[i].result = "skipped_unchanged"
     /\ IdsOf(store, files[i].id) # {}

\* C7: within one task upsert_document is called only right after
\* delete_by_file_id has returned, and when its points become visible no
\* point of that file id that was in the store before the delete remains.
C7_DeleteBeforeUpsert ==
  [][\A i \in DOMAIN tasks \cap DOMAIN tasks' :
       /\ ( /\ tasks'[i].calls # tasks[i].calls
            /\ tasks'[i].calls # << >>
            /\ tasks'[i].calls[Len(tasks'[i].calls)] = "upsert_document" )
          => /\ tasks[i].calls # << >>
             /\ tasks[i].calls[Len(tasks[i].calls)] = "delete_by_file_id"
       /\ (tasks[i].pc = "upsert" /\ tasks'[i].result = "ok")
          => \A p \in IdsOf(store', files[i].id) :
                store'[p].writer \notin tasks[i].before]_vars

\* C7 witness: a task replaced the points an earlier run had left
C7_Witness ==
  \E i \in DOMAIN tasks :
     /\ tasks[i].pc = "finished"
     /\ tasks[i].result = "ok"
     /\ tasks[i].before = {0}
     /\ tasks[i].calls = << "exists_file_mtime", "delete_by_file_id",
                            "upsert_document" >>

\* C8: after the pipeline has run to ok for a file id (no other task of
\* the run working on the same id) the store holds for it exactly the
\* points point_id(file_id, i), 0 <= i < |chunk_text(text)|, whatever it
\* held before; a run that ends skipped_unchanged leaves the store as it
\* is.  So a second run with the same descriptor and text leaves the same
\* set of point ids.
C8_ReingestIdempotent ==
  [][\A i \in DOMAIN tasks \cap DOMAIN tasks' :
       LET fid == files[i].id
           alone == \A j \in DOMAIN files : j # i => files[j].id # fid
           n == Len(ChunkTable[tasks[i].text])
       IN  /\ (tasks[i].pc = "upsert" /\ tasks'[i].result = "ok" /\ alone)
              => /\ n >= 1
                 /\ IdsOf(store', fid) = {<< fid, k >> : k \in 0..(n - 1)}
           /\ (tasks[i].pc = "exists" /\ tasks'[i].result = "skipped_unchanged")
              => store' = store]_vars

\* C8 witness: a file without modified_time, ingested by an earlier run, was
\* ingested again and holds two points
C8_Witness ==
  \E i \in DOMAIN tasks :
     /\ tasks[i].pc = "finished"
     /\ tasks[i].result = "ok"
     /\ files[i].modified_time = ""
     /\ tasks[i].before = {0}
     /\ \A j \in DOMAIN files : j # i => files[j].id # files[i].id
     /\ Cardinality(IdsOf(store, files[i].id)) = 2

\* C9: after the stop event is set run_loop starts no further run_once and
\* returns: it does not end by raising the shutdown (a listing that fails
\* with an error of its own is the case of C10).
C9_StopEndsRunLoop ==
  [][stop_event =>
       /\ (loop_pc' = "listing" => loop_pc = "listing")
       /\ (loop_pc' = "raised" => list_error' = "Exception")]_vars

\* C10: when list_files fails run_once raises the error to its caller; no
\* task has been submitted and the store is not touched.
C10_ListingFailurePropagates ==
  [][list_error' # "" =>
       /\ loop_pc' = "raised"
       /\ tasks = << >> /\ tasks' = << >>
       /\ in_flight' = {}
       /\ it' = 0
       /\ store' = store]_vars

\* C10 witness: the listing of a later cycle failed with a remote error
C10_Witness ==
  /\ loop_pc = "raised"
  /\ list_error = "Exception"
  /\ ~stop_event
  /\ DOMAIN store # {}


(***************************************************************************)
(* core/ingest/limiter.py:9-43  RateLimiter, shared by the threads of      *)
(* Acquirers.  Time is counted in clock ticks and tokens in units of       *)
(* 1/TokenUnit token; `rate` is units per tick.                            *)
(***************************************************************************)
\* threads calling acquire() on the one limiter
MaxAcquirers == 2
\* largest burst explored, in tokens (settings.py:158-162: burst >= 1)
MaxBurst == 2
\* largest rate explored, in units per tick (settings.py:151-155: rate > 0)
MaxRate == 2
\* last value of the monotonic clock explored
MaxClock == 4

Acquirers == 1..MaxAcquirers

\* the ingestion service is not running
IngestAtRest ==
  /\ store = << >>
  /\ INGEST_WORKERS = 1
  /\ loop_pc = "loop_test"
  /\ list_error = ""
  /\ files = << >>
  /\ total = 0
  /\ workers = 0
  /\ it = 0
  /\ in_flight = {}
  /\ done = {}
  /\ submitted_up_front = 0
  /\ stats = ZeroStats
  /\ tasks = << >>

\* a thread outside acquire(); took counts the tokens its call consumed,
\* now is the clock value the call read last (limiter.py:28), waits
\* (history) counts the stop_event.wait calls of the call
NoAcquire == [pc |-> "idle", took |-> 0, needed |-> 0, wait_from |-> 0,
              now |-> 0, waits |-> 0]

InitLimiter ==
  /\ stop_event = FALSE
  /\ signal_sets = 0
  /\ \E r \in 1..MaxRate, b \in TokenUnit..(MaxBurst * TokenUnit) :
        RateLimiterInit(r, b, 0)
  /\ acq = [t \in Acquirers |-> NoAcquire]
  /\ IngestAtRest
  /\ BackoffAtRest
  /\ ListingAtRest
  /\ LibraryAtRest

\* time.monotonic() advances
LimiterTick ==
  /\ clock < MaxClock
  /\ clock' = clock + 1
  /\ UNCHANGED << stop_event, signal_sets, ingest_vars, backoff_vars, listing_vars, library_vars,
                  granted, rate, capacity, tokens, updated, lock, acq >>

\* a thread calls limiter.acquire()
AcquireCall(t) ==
  /\ acq[t].pc \in {"idle", "returned", "raised"}
  /\ acq' = [acq EXCEPT ![t] = [NoAcquire EXCEPT !.pc = "test"]]
  /\ UNCHANGED << stop_event, signal_sets, ingest_vars, backoff_vars, listing_vars, library_vars,
                  granted, rate, capacity, tokens, updated, lock, clock >>

\* mutant of keeps_waiting: the loop does not look at the stop event
keeps_waiting_always(stop) == TRUE

\* limiter.py:26  while not self.stop_event.is_set()
keeps_waiting(stop) == ~stop

\* limiter.py:26, 43: the loop test; raise ShutdownRequested() when it fails
AcquireTest(t) ==
  /\ acq[t].pc = "test"
  /\ acq' = [acq EXCEPT ![t].pc = IF keeps_waiting(stop_event)
                                  THEN "lock" ELSE "raised"]
  /\ UNCHANGED << stop_event, signal_sets, ingest_vars, backoff_vars, listing_vars, library_vars,
                  granted, rate, capacity, tokens, updated, lock, clock >>

\* limiter.py:27  with self.lock: entered
AcquireLock(t) ==
  /\ acq[t].pc = "lock"
  /\ lock = 0
  /\ lock' = t
  /\ acq' = [acq EXCEPT ![t].pc = "refill"]
  /\ UNCHANGED << stop_event, signal_sets, ingest_vars, backoff_vars, listing_vars, library_vars,
                  granted, rate, capacity, tokens, updated, clock >>

\* mutant of refilled: the refill counts one tick more than has passed
refilled_one_tick_more(tk, elapsed, r, cap) ==
  IF cap < tk + (elapsed + 1) * r THEN cap ELSE tk + (elapsed + 1) * r

\* mutant of refilled: only whole tokens are added
refilled_whole_tokens(tk, elapsed, r, cap) ==
  LET add == ((elapsed * r) \div TokenUnit) * TokenUnit
  IN  IF elapsed > 0 THEN (IF cap < tk + add THEN cap ELSE tk + add) ELSE tk

\* mutant of refilled: the bucket is not capped
refilled_uncapped(tk, elapsed, r, cap) ==
  IF elapsed > 0 THEN tk + elapsed * r ELSE tk

\* limiter.py:30-31  min(self.capacity, self.tokens + elapsed * self.rate)
refilled(tk, elapsed, r, cap) ==
  IF elapsed > 0
  THEN (IF cap < tk + elapsed * r THEN cap ELSE tk + elapsed * r)
  ELSE tk

\* limiter.py:28-32: now = time.monotonic() and the refill
AcquireRefill(t) ==
  /\ acq[t].pc = "refill"
  /\ tokens' = refilled(tokens, clock - updated, rate, capacity)
  /\ updated' = IF clock - updated > 0 THEN clock ELSE updated
  /\ acq' = [acq EXCEPT ![t] = [@ EXCEPT !.pc = "take", !.now = clock]]
  /\ UNCHANGED << stop_event, signal_sets, ingest_vars, backoff_vars, listing_vars, library_vars,
                  granted, rate, capacity, lock, clock >>

\* one more call counted under clock value k
counted(f, k) ==
  [x \in DOMAIN f \cup {k} |->
     IF x = k THEN (IF k \in DOMAIN f THEN f[k] ELSE 0) + 1 ELSE f[x]]

\* mutant of lock_on_wait: the wait is inside the with block
lock_kept_on_wait(t) == t

\* limiter.py:41: the with block has been left when stop_event.wait is called
lock_on_wait(t) == 0

\* limiter.py:34-41: take a token and return, or compute the wait, leave
\* the with block and call stop_event.wait(timeout=sleep_for).  sleep_for =
\* needed / rate is kept as the pair (needed, rate); its floor of 0.001 s is
\* below one tick
AcquireTake(t) ==
  /\ acq[t].pc = "take"
  /\ IF tokens >= TokenUnit
     THEN /\ tokens' = tokens - TokenUnit
          /\ lock' = 0
          /\ acq' = [acq EXCEPT ![t] = [@ EXCEPT !.pc = "returned",
                                                 !.took = @ + 1]]
          /\ granted' = [read |-> counted(granted.read, acq[t].now),
                         at |-> counted(granted.at, clock)]
     ELSE /\ tokens' = tokens
          /\ granted' = granted
          /\ lock' = lock_on_wait(t)
          /\ acq' = [acq EXCEPT ![t] = [@ EXCEPT !.pc = "wait",
                                                 !.needed = TokenUnit - tokens,
                                                 !.wait_from = clock,
                                                 !.waits = @ + 1]]
  /\ UNCHANGED << stop_event, signal_sets, ingest_vars, backoff_vars, listing_vars, library_vars,
                  rate, capacity, updated, clock >>

\* limiter.py:41  stop_event.wait(timeout=sleep_for) returns: the event is
\* set or the timeout has passed
AcquireWake(t) ==
  /\ acq[t].pc = "wait"
  /\ stop_event \/ (clock - acq[t].wait_from) * rate >= acq[t].needed
  /\ acq' = [acq EXCEPT ![t].pc = "test"]
  /\ UNCHANGED << stop_event, signal_sets, ingest_vars, backoff_vars, listing_vars, library_vars,
                  granted, rate, capacity, tokens, updated, lock, clock >>

NextLimiter ==
  \/ SignalStop
  \/ LimiterTick
  \/ \E t \in DOMAIN acq : AcquireCall(t)
  \/ \E t \in DOMAIN acq : AcquireTest(t)
  \/ \E t \in DOMAIN acq : AcquireLock(t)
  \/ \E t \in DOMAIN acq : AcquireRefill(t)
  \/ \E t \in DOMAIN acq : AcquireTake(t)
  \/ \E t \in DOMAIN acq : AcquireWake(t)

SpecLimiter == InitLimiter /\ [][NextLimiter]_vars

\* C11: in every reachable state of the limiter 0 <= tokens <= capacity.
C11_TokensInRange == 0 <= tokens /\ tokens <= capacity

\* C11 witness: after a refill two acquirers have taken their tokens and
\* the bucket is empty
C11_Witness ==
  /\ acq # << >>
  /\ \A t \in DOMAIN acq : acq[t].pc = "returned" /\ acq[t].took = 1
  /\ updated > 0
  /\ tokens = 0

\* C12: acquire raises ShutdownRequested, leaving the bucket as it is, when
\* its loop test finds the stop event set, which is the case on entry with
\* the event set and after a wait the event has ended; a call that raised
\* has consumed no token.
C12_StopRaisesWithoutToken ==
  [][\A t \in DOMAIN acq \cap DOMAIN acq' :
       /\ (stop_event /\ acq[t].pc = "test" /\ acq'[t] # acq[t])
             => (acq'[t].pc = "raised" /\ tokens' = tokens)
       /\ (stop_event /\ acq[t].pc = "wait" /\ acq'[t] # acq[t])
             => (acq'[t].pc = "test" /\ tokens' = tokens)
       /\ acq'[t].pc = "raised" => acq'[t].took = 0]_vars

\* C12 witness: a call that was waiting for a refill raised, the bucket
\* still short of a token
C12_Witness ==
  \E t \in DOMAIN acq :
     /\ acq[t].pc = "raised"
     /\ acq[t].needed > 0
     /\ tokens < TokenUnit

\* C13: tokens and updated are read and written only by the thread that
\* holds the lock, the lock is held by at most that one thread, and a thread
\* waiting on the stop event does not hold it.
C13_LockDiscipline ==
  /\ [](\A t \in DOMAIN acq :
          /\ acq[t].pc \in {"refill", "take"} <=> lock = t
          /\ acq[t].pc = "wait" => lock # t)
  /\ [][(tokens' # tokens \/ updated' # updated)
          => (lock # 0 /\ acq[lock].pc \in {"refill", "take"}
                /\ acq'[lock] # acq[lock])]_vars

\* C13 witness: while one acquirer waits for a refill, another has entered
\* and taken the token that became available
C13_Witness ==
  \E t, u \in DOMAIN acq :
     /\ acq[t].pc = "wait"
     /\ acq[u].pc = "returned"
     /\ acq[u].took = 1
     /\ updated > acq[t].wait_from


(***************************************************************************)
(* providers/google_drive/api.py:20-62  execute_with_backoff(call,         *)
(* limiter), with the limiter of limiter.py: acquire raises                *)
(* ShutdownRequested when its loop test finds the stop event set.  Delays  *)
(* are counted in tenths of a tick, the settings in ticks.                 *)
(***************************************************************************)
\* largest STORAGE_GOOGLE_DRIVE_BACKOFF_RETRIES explored
MaxRetries == 2
\* largest STORAGE_GOOGLE_DRIVE_BACKOFF_BASE_DELAY_SECONDS explored
MaxBaseDelay == 2
\* largest STORAGE_GOOGLE_DRIVE_BACKOFF_MAX_DELAY_SECONDS explored
MaxMaxDelay == 3

\* api.py:33  retryable = status in (429, 500, 502, 503, 504)
Retryable == {429, 500, 502, 503, 504}

\* statuses an HttpError of the remote may carry
HttpStatuses == Retryable \cup {400, 403, 404}

\* api.py:46  0.7 + random.random() * 0.6, in tenths: values of [0.7, 1.3)
JitterTenths == {7, 10, 12}

RECURSIVE Pow2(_)
Pow2(n) == IF n <= 0 THEN 1 ELSE 2 * Pow2(n - 1)

InitBackoff ==
  /\ stop_event = FALSE
  /\ signal_sets = 0
  /\ retries \in 0..MaxRetries
  /\ base_delay \in 1..MaxBaseDelay
  /\ max_delay \in 1..MaxMaxDelay
  /\ bo = NoCall
  /\ IngestAtRest
  /\ LimiterAtRest
  /\ ListingAtRest
  /\ LibraryAtRest

\* api.py:20-23: the function is called
BackoffCall ==
  /\ bo.pc \in {"idle", "returned", "raised"}
  /\ bo' = [NoCall EXCEPT !.pc = "acquire"]
  /\ UNCHANGED << stop_event, signal_sets, ingest_vars, limiter_vars, listing_vars, library_vars,
                  retries, base_delay, max_delay >>

\* api.py:25  limiter.acquire()
BackoffAcquire ==
  /\ bo.pc = "acquire"
  /\ bo' = IF keeps_waiting(stop_event)
           THEN [bo EXCEPT !.pc = "call", !.acquires = @ + 1]
           ELSE [bo EXCEPT !.pc = "raised", !.acquires = @ + 1,
                           !.result = "ShutdownRequested"]
  /\ UNCHANGED << stop_event, signal_sets, ingest_vars, limiter_vars, listing_vars, library_vars,
                  retries, base_delay, max_delay >>

\* mutant of retry_allowed: one retry more than the budget
retry_allowed_once_more(status, attempt, budget) ==
  status \in Retryable /\ attempt <= budget

\* api.py:33-40: the failure is retried; `attempt` counts the retries made
\* before it (attempt += 1; if attempt > RETRIES: raise)
retry_allowed(status, attempt, budget) ==
  status \in Retryable /\ attempt + 1 <= budget

\* mutant of backoff_delay: the cap of max_delay is missing
backoff_delay_uncapped(k, j) == base_delay * Pow2(k - 1) * j

\* api.py:42-46: delay before retry number k, with jitter j tenths
backoff_delay(k, j) ==
  LET grown == base_delay * Pow2(k - 1)
  IN  (IF max_delay < grown THEN max_delay ELSE grown) * j

\* api.py:26-46: one attempt of the wrapped call
BackoffAttempt ==
  /\ bo.pc = "call"
  /\ \/ bo' = [bo EXCEPT !.pc = "returned", !.calls = @ + 1, !.result = "ok"]
     \/ bo' = [bo EXCEPT !.pc = "raised", !.calls = @ + 1,
                         !.result = "Exception"]
     \/ \E status \in HttpStatuses :
          IF retry_allowed(status, bo.attempt, retries)
          THEN \E j \in JitterTenths :
                 bo' = [bo EXCEPT !.pc = "sleep", !.calls = @ + 1,
                                  !.status = status,
                                  !.attempt = @ + 1,
                                  !.delay = backoff_delay(bo.attempt + 1, j),
                                  !.slept = 0]
          ELSE bo' = [bo EXCEPT !.pc = "raised", !.calls = @ + 1,
                                !.status = status, !.result = "HttpError"]
  /\ UNCHANGED << stop_event, signal_sets, ingest_vars, limiter_vars, listing_vars, library_vars,
                  retries, base_delay, max_delay >>

\* api.py:62  time.sleep(delay): time passes
BackoffSleep ==
  /\ bo.pc = "sleep"
  /\ bo.slept < bo.delay
  /\ \E d \in 1..(bo.delay - bo.slept) : bo' = [bo EXCEPT !.slept = @ + d]
  /\ UNCHANGED << stop_event, signal_sets, ingest_vars, limiter_vars, listing_vars, library_vars,
                  retries, base_delay, max_delay >>

\* mutant of after_sleep: a retry goes straight to the call
after_sleep_call == "call"

\* api.py:24-25: after the sleep the loop starts over at limiter.acquire()
after_sleep == "acquire"

\* api.py:62  time.sleep(delay) returns when the delay has passed
BackoffWake ==
  /\ bo.pc = "sleep"
  /\ bo.slept = bo.delay
  /\ bo' = [bo EXCEPT !.pc = after_sleep]
  /\ UNCHANGED << stop_event, signal_sets, ingest_vars, limiter_vars, listing_vars, library_vars,
                  retries, base_delay, max_delay >>

NextBackoff ==
  \/ SignalStop
  \/ BackoffCall
  \/ BackoffAcquire
  \/ BackoffAttempt
  \/ BackoffSleep
  \/ BackoffWake

SpecBackoff == InitBackoff /\ [][NextBackoff]_vars

\* the function returned, or raised the error of the wrapped call
Surfaced ==
  bo.pc = "returned" \/ (bo.pc = "raised" /\ bo.result \in {"HttpError", "Exception"})

\* C14: every attempt of the wrapped call follows an acquire of its own,
\* retries included; when the function returns or raises the call's error
\* the acquires made equal the attempts made.
C14_AcquirePerAttempt ==
  /\ [](bo.calls <= bo.acquires /\ bo.acquires <= bo.calls + 1)
  /\ [](Surfaced => bo.acquires = bo.calls)
  /\ [][bo'.calls > bo.calls =>
          (bo'.calls = bo.calls + 1 /\ bo.acquires = bo.calls + 1)]_vars

\* C14 witness: the call succeeded at its third attempt
C14_Witness ==
  /\ bo.pc = "returned"
  /\ bo.calls = 3
  /\ bo.acquires = 3

\* C15: a failed attempt is retried exactly when it is an HttpError with a
\* retryable status and fewer than `retries` retries were made before it;
\* an error raised with a retryable status ends retries + 1 attempts, any
\* other HttpError is raised by the attempt that met it, and an error that
\* is no HttpError is never retried.
C15_RetryBudget ==
  [][(bo.pc = "call" /\ bo' # bo) =>
       /\ bo'.pc = "sleep"
            => (bo'.status \in Retryable /\ bo.attempt < retries
                  /\ bo'.attempt = bo.attempt + 1)
       /\ (bo'.pc = "raised" /\ bo'.result = "HttpError")
            => /\ ~(bo'.status \in Retryable /\ bo.attempt < retries)
               /\ bo'.status \in Retryable => bo'.calls = retries + 1
               /\ bo'.status \notin Retryable => bo'.calls = bo.attempt + 1
       /\ bo'.result = "Exception" => bo'.pc = "raised"]_vars

\* C15 witness: the budget of two retries is used up on a status 503
C15_Witness ==
  /\ bo.pc = "raised"
  /\ bo.result = "HttpError"
  /\ bo.status = 503
  /\ retries = 2
  /\ bo.calls = 3

\* C16: once the stop event is set, no further time of the delay passes in
\* the sleep between two attempts.
C16_SleepInterruptible ==
  [][(stop_event /\ bo.pc = "sleep") => bo'.slept = bo.slept]_vars


(***************************************************************************)
(* providers/google_drive/provider.py:41-267  GoogleDriveProvider          *)
(* list_files, _walk_recursive, _list_children, _list_all_accessible_files *)
(* and _matches_filter.  A string is a sequence of pieces (runs of         *)
(* characters): "text/plain" is << "text/", "plain" >>.                    *)
(***************************************************************************)
\* most children of one folder
MaxChildren == 2
\* entries the remote returns per page (pageSize is an upper limit)
PageSize == 1

\* provider.py:16-17
FOLDER_MIME == << "application/", "vnd.google-apps.folder" >>
SHORTCUT_MIME == << "application/", "vnd.google-apps.shortcut" >>

\* folder ids of the remote
Folders == {"root", "a"}

\* a Drive file resource: id, mimeType, fileExtension, name and, for a
\* shortcut, shortcutDetails.targetId
Entry(id, mime, ext, name, target) ==
  [id |-> id, mimeType |-> mime, fileExtension |-> ext, name |-> name,
   target |-> target]

FolderA == Entry("a", FOLDER_MIME, << >>, << "a" >>, "")
FolderRoot == Entry("root", FOLDER_MIME, << >>, << "root" >>, "")
ShortcutToA ==
  Entry("s", SHORTCUT_MIME, << >>, << "s", ".", "md" >>, "a")
TextFile == Entry("f1", << "text/", "plain" >>, << "txt" >>, << "f1", ".", "txt" >>, "")
PngFile == Entry("f2", << "image/", "png" >>, << "PNG" >>, << "f2" >>, "")
NotesFile ==
  Entry("f3", << "application/", "octet-stream" >>, << >>,
        << "v1", ".", "notes", ".", "MD" >>, "")

\* what each folder may hold; "a" may hold its parent: a back-edge
ChildChoices ==
  [root |-> {FolderA, ShortcutToA, TextFile, NotesFile},
   a |-> {FolderRoot, TextFile, PngFile}]

SeqsUpTo(S, n) == UNION {[1..k -> S] : k \in 0..n}

Drives ==
  {d \in [Folders -> SeqsUpTo(ChildChoices.root \cup ChildChoices.a, MaxChildren)] :
     \A f \in Folders : \A i \in DOMAIN d[f] : d[f][i] \in ChildChoices[f]}

\* settings.STORAGE_GOOGLE_DRIVE_FOLDER_IDS
RootLists == {<< "root" >>, << "root", "root" >>, << "a", "root" >>}

\* providers/base.py:22-28  FileTypeFilter
FileTypeFilters ==
  { [mime_types |-> << >>, mime_prefixes |-> << >>, extensions |-> << >>],
    [mime_types |-> << << "text/", "plain" >>, SHORTCUT_MIME >>,
     mime_prefixes |-> << >>, extensions |-> << >>],
    [mime_types |-> << >>, mime_prefixes |-> << << >>, << "image/" >> >>,
     extensions |-> << << "Md" >> >>] }

\* str.lower() on one piece
lower_piece(c) ==
  CASE c = "MD" -> "md"
    [] c = "Md" -> "md"
    [] c = "PNG" -> "png"
    [] OTHER -> c

\* str.lower()
lower(str) == [i \in DOMAIN str |-> lower_piece(str[i])]

\* str.startswith(prefix)
startswith(str, prefix) ==
  Len(prefix) <= Len(str) /\ SubSeq(str, 1, Len(prefix)) = prefix

\* name.rsplit(".", 1)[-1]: what follows the last "."
rsplit_last(name) ==
  LET dots == {i \in DOMAIN name : name[i] = "."}
  IN  IF dots = {} THEN name
      ELSE SubSeq(name, (CHOOSE i \in dots : \A j \in dots : j <= i) + 1, Len(name))

Range(seq) == {seq[i] : i \in DOMAIN seq}

\* provider.py:144-148: the extension _matches_filter goes by
extension_of(file_meta) ==
  IF file_meta.fileExtension # << >> THEN lower(file_meta.fileExtension)
  ELSE IF "." \in Range(file_meta.name) THEN lower(rsplit_last(file_meta.name))
  ELSE << >>

\* mutant of _matches_filter: every entry passes
_matches_filter_all(file_meta, file_filter) == TRUE

\* provider.py:141-154
_matches_filter(file_meta, file_filter) ==
  LET mime == file_meta.mimeType
      ext == extension_of(file_meta)
  IN  \/ mime \in Range(file_filter.mime_types)
      \/ \E prefix \in Range(file_filter.mime_prefixes) :
            prefix # << >> /\ startswith(mime, prefix)
      \/ ext # << >> /\ ext \in {lower(x) : x \in Range(file_filter.extensions)}

\* provider.py:137-139
_is_shortcut(file_meta) == file_meta.mimeType = SHORTCUT_MIME

\* provider.py:122-135, with the fields the filter reads
_to_storage_meta(file_meta) ==
  [id |-> file_meta.id, name |-> file_meta.name,
   mime_type |-> file_meta.mimeType, extension |-> file_meta.fileExtension]

\* page number k of a listing, and whether a nextPageToken comes with it
page_of(entries, k) ==
  SubSeq(entries, (k - 1) * PageSize + 1,
         IF k * PageSize < Len(entries) THEN k * PageSize ELSE Len(entries))

has_next_page(entries, k) == k * PageSize < Len(entries)

\* everything the service account can see, as files().list returns it
all_accessible(d) == d["root"] \o d["a"]

\* a list_files call at its first statement
NewListing(mode, roots, file_filter) ==
  [pc |-> "start", mode |-> mode, roots |-> roots, file_filter |-> file_filter,
   stack |-> << >>, seen |-> {}, parent |-> "", acc |-> << >>, page |-> 0,
   kids |-> << >>, idx |-> 0, out |-> << >>, result |-> << >>, error |-> "",
   listed |-> [f \in Folders |-> 0], requests |-> 0]

InitListing ==
  /\ stop_event = FALSE
  /\ signal_sets = 0
  /\ drive \in Drives
  /\ \E mode \in {"folders", "all_accessible"}, roots \in RootLists,
        file_filter \in FileTypeFilters :
        listing = NewListing(mode, roots, file_filter)
  /\ IngestAtRest
  /\ LimiterAtRest
  /\ BackoffAtRest
  /\ LibraryAtRest

\* what a listing step leaves alone
ListingFrame ==
  UNCHANGED << stop_event, signal_sets, drive, ingest_vars, limiter_vars, backoff_vars, library_vars >>

\* provider.py:44-56, 194-195, 233-240: the client is built, then the walk
\* starts from the configured roots or the flat listing from its first page
ListStart ==
  /\ listing.pc = "start"
  /\ \/ listing' = [listing EXCEPT !.pc = "raised", !.error = "Exception"]
     \/ /\ listing.mode = "folders"
        /\ listing' = [listing EXCEPT !.pc = "walk", !.stack = listing.roots,
                                      !.seen = {}]
     \/ /\ listing.mode = "all_accessible"
        /\ listing' = [listing EXCEPT !.pc = "fetch", !.parent = "*",
                                      !.acc = << >>, !.page = 1]
  /\ ListingFrame

\* mutant of already_seen: the seen set is never consulted
already_seen_never(folder_id, seen) == FALSE

\* provider.py:199
already_seen(folder_id, seen) == folder_id \in seen

\* provider.py:197-203, 157-159: the while test, the pop, the seen test
\* and the call of _list_children up to its first page
WalkLoop ==
  /\ listing.pc = "walk"
  /\ IF listing.stack = << >> \/ stop_event
       THEN listing' = [listing EXCEPT !.pc = "collected"]
       ELSE LET folder_id == listing.stack[Len(listing.stack)]
                rest == SubSeq(listing.stack, 1, Len(listing.stack) - 1)
            IN  IF already_seen(folder_id, listing.seen)
                  THEN listing' = [listing EXCEPT !.stack = rest]
                  ELSE listing' =
                         [listing EXCEPT !.stack = rest,
                                         !.seen = listing.seen \cup {folder_id},
                                         !.pc = "fetch", !.parent = folder_id,
                                         !.acc = << >>, !.page = 1,
                                         !.listed[folder_id] = listing.listed[folder_id] + 1]
  /\ ListingFrame

\* what files().list returns for the listing in progress
remote_entries(d, parent) == IF parent = "*" THEN all_accessible(d) ELSE d[parent]

\* provider.py:161-163, 242-244 with api.py:27-28: the top of the page loop
\* goes straight into execute_with_backoff, whose limiter.acquire() raises
\* ShutdownRequested once the stop event is set and returns otherwise
FetchAcquire ==
  /\ listing.pc = "fetch"
  /\ IF keeps_waiting(stop_event)
       THEN listing' = [listing EXCEPT !.pc = "request"]
       ELSE listing' = [listing EXCEPT !.pc = "raised", !.error = "ShutdownRequested"]
  /\ ListingFrame

\* provider.py:163-182, 244-263: the request goes out; execute_with_backoff
\* returns the page or lets an error through (after retries, or
\* ShutdownRequested from the acquire of a retry); the page is appended and
\* the loop goes on while a nextPageToken came with it
FetchRequest ==
  /\ listing.pc = "request"
  /\ LET entries == remote_entries(drive, listing.parent)
         acc == listing.acc \o page_of(entries, listing.page)
     IN  \/ listing' = [listing EXCEPT !.pc = "raised", !.error = "HttpError",
                                       !.requests = listing.requests + 1]
         \/ /\ stop_event
            /\ listing' = [listing EXCEPT !.pc = "raised", !.error = "ShutdownRequested",
                                          !.requests = listing.requests + 1]
         \/ /\ has_next_page(entries, listing.page)
            /\ listing' = [listing EXCEPT !.pc = "fetch", !.acc = acc,
                                          !.page = listing.page + 1,
                                          !.requests = listing.requests + 1]
         \/ /\ ~has_next_page(entries, listing.page)
            /\ listing.mode = "folders"
            /\ listing' = [listing EXCEPT !.pc = "entries", !.acc = << >>,
                                          !.kids = acc, !.idx = 1, !.page = 0,
                                          !.requests = listing.requests + 1]
         \/ /\ ~has_next_page(entries, listing.page)
            /\ listing.mode = "all_accessible"
            /\ listing' = [listing EXCEPT !.pc = "filter", !.acc = acc, !.page = 0,
                                          !.requests = listing.requests + 1]
  /\ ListingFrame

\* mutant of pushed: a shortcut to a folder is followed
pushed_with_targets(f) ==
  IF f.mimeType = FOLDER_MIME THEN << f.id >>
  ELSE IF _is_shortcut(f) /\ f.target # "" THEN << f.target >>
  ELSE << >>

\* provider.py:207-208: what an entry adds to the stack
pushed(f) == IF f.mimeType = FOLDER_MIME THEN << f.id >> ELSE << >>

\* provider.py:209-217: what an entry that is not a folder yields
yielded(f, file_filter) ==
  IF f.mimeType # FOLDER_MIME /\ ~_is_shortcut(f) /\ _matches_filter(f, file_filter)
    THEN << f >>
    ELSE << >>

\* provider.py:203-217: one round of the for loop over the children
WalkEntry ==
  /\ listing.pc = "entries"
  /\ IF listing.idx > Len(listing.kids) \/ stop_event
       THEN listing' = [listing EXCEPT !.pc = "walk", !.kids = << >>, !.idx = 0,
                                       !.parent = ""]
       ELSE LET f == listing.kids[listing.idx]
            IN  listing' = [listing EXCEPT !.stack = listing.stack \o pushed(f),
                                           !.out = listing.out \o yielded(f, listing.file_filter),
                                           !.idx = listing.idx + 1]
  /\ ListingFrame

\* provider.py:265-267: the comprehension over the collected entries
RECURSIVE kept(_, _)
kept(entries, file_filter) ==
  IF entries = << >> THEN << >>
  ELSE (IF ~_is_shortcut(entries[1]) /\ _matches_filter(entries[1], file_filter)
          THEN << entries[1] >> ELSE << >>)
       \o kept(Tail(entries), file_filter)

\* provider.py:265-267
AllAccessibleFilter ==
  /\ listing.pc = "filter"
  /\ listing' = [listing EXCEPT !.pc = "collected", !.acc = << >>, !.parent = "",
                                !.out = kept(listing.acc, listing.file_filter)]
  /\ ListingFrame

\* provider.py:84
ListReturn ==
  /\ listing.pc = "collected"
  /\ listing' = [listing EXCEPT !.pc = "returned",
                                !.result = [i \in DOMAIN listing.out |->
                                              _to_storage_meta(listing.out[i])]]
  /\ ListingFrame

NextListing ==
  \/ SignalStop
  \/ ListStart
  \/ WalkLoop
  \/ FetchAcquire
  \/ FetchRequest
  \/ WalkEntry
  \/ AllAccessibleFilter
  \/ ListReturn

SpecListing == InitListing /\ [][NextListing]_vars

\* a step of the thread that runs list_files
ListingStep ==
  \/ ListStart
  \/ WalkLoop
  \/ FetchAcquire
  \/ FetchRequest
  \/ WalkEntry
  \/ AllAccessibleFilter
  \/ ListReturn

\* the thread that runs list_files keeps running until the call ends, and
\* every remote request comes back
SpecListingLive == SpecListing /\ WF_vars(ListingStep)

\* _walk_recursive is over: the generator is exhausted or an error went through
WalkOver == listing.pc \in {"collected", "returned", "raised"}

\* C17: whatever the folder graph (back-edges included) and the root list
\* (repeated and overlapping roots included), the walk asks for the
\* children of each folder id at most once, and it comes to an end
C17_WalkListsOnceAndTerminates ==
  /\ [](\A f \in Folders : listing.listed[f] <= 1)
  /\ (listing.mode = "folders" => <>WalkOver)

\* C17 witness: a walk over a graph where "a" holds its ancestor "root",
\* started from a root list that names "root" twice, has returned after
\* listing both folders
C17_Witness ==
  /\ listing.pc = "returned"
  /\ listing.mode = "folders"
  /\ listing.roots = << "root", "root" >>
  /\ FolderA \in Range(drive["root"])
  /\ FolderRoot \in Range(drive["a"])
  /\ listing.listed["root"] = 1
  /\ listing.listed["a"] = 1

\* the descriptors handed out so far
Descriptors == [i \in DOMAIN listing.out |-> _to_storage_meta(listing.out[i])]

\* the extension of a descriptor: its extension field or, without one, what
\* follows the last "." of its name
DescriptorExtension(d) ==
  IF d.extension # << >> THEN d.extension
  ELSE IF \E i \in DOMAIN d.name : d.name[i] = "." THEN rsplit_last(d.name)
  ELSE << >>

\* a descriptor matches a filter: its MIME type is one of the MIME types, or
\* starts with a non-empty prefix, or its extension is, case aside, one of
\* the extensions
DescriptorMatches(d, file_filter) ==
  \/ \E i \in DOMAIN file_filter.mime_types : file_filter.mime_types[i] = d.mime_type
  \/ \E i \in DOMAIN file_filter.mime_prefixes :
        /\ file_filter.mime_prefixes[i] # << >>
        /\ startswith(d.mime_type, file_filter.mime_prefixes[i])
  \/ /\ DescriptorExtension(d) # << >>
     /\ \E i \in DOMAIN file_filter.extensions :
           lower(file_filter.extensions[i]) = lower(DescriptorExtension(d))

EmptyFilter(file_filter) ==
  /\ file_filter.mime_types = << >>
  /\ file_filter.mime_prefixes = << >>
  /\ file_filter.extensions = << >>

\* C18: in both listing modes every descriptor handed out, and every
\* descriptor list_files returns, matches the filter of the call; a filter
\* with three empty sets yields no descriptor
C18_FilterSound ==
  /\ \A i \in DOMAIN Descriptors : DescriptorMatches(Descriptors[i], listing.file_filter)
  /\ \A i \in DOMAIN listing.result :
        DescriptorMatches(listing.result[i], listing.file_filter)
  /\ EmptyFilter(listing.file_filter) => (listing.out = << >> /\ listing.result = << >>)

\* C18 witness: an all-accessible listing of four entries has returned the
\* two that match (one by MIME prefix, one by the extension in its name,
\* case aside) and left out a shortcut and a file that does not match
C18_Witness ==
  /\ listing.pc = "returned"
  /\ listing.mode = "all_accessible"
  /\ drive["root"] = << ShortcutToA, NotesFile >>
  /\ drive["a"] = << TextFile, PngFile >>
  /\ listing.result = << _to_storage_meta(NotesFile), _to_storage_meta(PngFile) >>

\* folder_id was listed because it is a root or because a listed folder
\* holds a folder entry with that id
ReachedThroughFolders(folder_id) ==
  \/ folder_id \in Range(listing.roots)
  \/ \E p \in Folders :
        /\ listing.listed[p] >= 1
        /\ \E i \in DOMAIN drive[p] :
              drive[p][i].mimeType = FOLDER_MIME /\ drive[p][i].id = folder_id

\* C19: in both listing modes no entry with the shortcut MIME type is handed
\* out or returned, and the walk lists a folder only if it is a root or a
\* folder entry of a listed folder, never because a shortcut points at it
C19_ShortcutsNeverYieldedNorFollowed ==
  /\ \A i \in DOMAIN listing.out : listing.out[i].mimeType # SHORTCUT_MIME
  /\ \A i \in DOMAIN listing.result : listing.result[i].mime_type # SHORTCUT_MIME
  /\ \A f \in Folders : listing.listed[f] >= 1 => ReachedThroughFolders(f)

\* C19 witness: a walk from "root", which holds a shortcut to the non-empty
\* folder "a" and a text file, under a filter that names the shortcut MIME
\* type, has returned the text file alone and never listed "a"
C19_Witness ==
  /\ listing.pc = "returned"
  /\ listing.mode = "folders"
  /\ listing.roots = << "root" >>
  /\ drive["root"] = << ShortcutToA, TextFile >>
  /\ drive["a"] # << >>
  /\ SHORTCUT_MIME \in Range(listing.file_filter.mime_types)
  /\ listing.result = << _to_storage_meta(TextFile) >>
  /\ listing.listed["a"] = 0

\* C20: when the stop event is set as a page fetch is about to start, the
\* listing sends no request and ends normally with what it had collected
\* (it does not fail), and when it is set between two entries of the walk
\* no further entry is pushed or yielded
C20_StopCheckedAtPageBoundary ==
  [][/\ (stop_event /\ listing.pc = "fetch" /\ listing' # listing)
          => /\ listing'.requests = listing.requests
             /\ listing'.pc # "raised"
     /\ (stop_event /\ listing.pc = "entries" /\ listing' # listing)
          => /\ listing'.stack = listing.stack
             /\ listing'.out = listing.out]_vars


(***************************************************************************)
(* extractors/registry.py:6-39  ExtractorRegistry.  An extractor is known  *)
(* by its name; its mime_types and its can_extract are tables.  The sets   *)
(* _mime_prefixes and _extensions, which get_extractor does not read, are  *)
(* left out.                                                               *)
(***************************************************************************)
\* most register calls on one registry
MaxRegistered == 3

\* values of file_meta["mimeType"]; "" stands for a missing key
FileMimes == {"", "application/json", "application/pdf", "text/plain"}

\* values of file_meta["fileExtension"]
FileExtensions == {"", "md"}

FileMetas == [mimeType : FileMimes, fileExtension : FileExtensions]

\* the extractors a program may register: their mime_types property
\* (base.py:18-21) and the files their can_extract accepts (base.py:34-36).
\*   json      declares application/json and accepts it
\*   pdf       declares application/pdf and accepts it
\*   text      as text.py:87-106: declares application/json, accepts it,
\*             anything under text/ and the extension md
\*   fallback  declares nothing and accepts every file
ExtractorPool ==
  [json |-> [mime_types |-> << "application/json" >>,
             accepts |-> {f \in FileMetas : f.mimeType = "application/json"}],
   pdf |-> [mime_types |-> << "application/pdf" >>,
            accepts |-> {f \in FileMetas : f.mimeType = "application/pdf"}],
   text |-> [mime_types |-> << "application/json" >>,
             accepts |-> {f \in FileMetas :
                            \/ f.mimeType \in {"application/json", "text/plain"}
                            \/ f.fileExtension = "md"}],
   fallback |-> [mime_types |-> << >>, accepts |-> FileMetas]]

ExtractorNames == DOMAIN ExtractorPool

\* extractor.can_extract(file_meta)
can_extract(extractor, file_meta) == file_meta \in ExtractorPool[extractor].accepts

\* registry.py:19-20: `self._mime_map[mime] = extractor` for every mime
mime_map_after(mime_map, extractor) ==
  LET declared == Range(ExtractorPool[extractor].mime_types)
  IN  [mime \in DOMAIN mime_map \cup declared |->
         IF mime \in declared THEN extractor ELSE mime_map[mime]]

\* registry.py:15-25
register(reg, extractor) ==
  [_extractors |-> Append(reg._extractors, extractor),
   _mime_map |-> mime_map_after(reg._mime_map, extractor)]

\* mutant of in_mime_map: the exact-match table is never consulted
in_mime_map_never(mime, mime_map) == FALSE

\* registry.py:32
in_mime_map(mime, mime_map) == mime \in DOMAIN mime_map

\* registry.py:27-39; "None" when no extractor is found
get_extractor(reg, file_meta) ==
  LET mime == file_meta.mimeType
      able == {i \in DOMAIN reg._extractors : can_extract(reg._extractors[i], file_meta)}
  IN  IF in_mime_map(mime, reg._mime_map) THEN reg._mime_map[mime]
      ELSE IF able # {} THEN reg._extractors[Min(able)]
      ELSE "None"

InitRegistry ==
  /\ stop_event = FALSE
  /\ signal_sets = 0
  /\ registry = EmptyRegistry
  /\ lookup = NoLookup
  /\ IngestAtRest
  /\ LimiterAtRest
  /\ BackoffAtRest
  /\ ListingAtRest
  /\ ClientsAtRest
  /\ CollectionAtRest
  /\ chunking = NoChunking
  /\ BuiltinExtractors
  /\ ProgressAtRest

RegistryFrame ==
  UNCHANGED << stop_event, signal_sets, ingest_vars, limiter_vars, backoff_vars, listing_vars,
               clients_vars, collection_vars, chunking, extractor_bags, prog >>

\* registry.py:15-25, 60-63: one register call; the answer of an earlier
\* lookup is gone
Register(extractor) ==
  /\ Len(registry._extractors) < MaxRegistered
  /\ registry' = register(registry, extractor)
  /\ lookup' = NoLookup
  /\ RegistryFrame

\* registry.py:27-39, 66-69: one get_extractor call
GetExtractor(file_meta) ==
  /\ lookup' = [pc |-> "returned", file_meta |-> file_meta,
                result |-> get_extractor(registry, file_meta)]
  /\ registry' = registry
  /\ RegistryFrame

NextRegistry ==
  \/ \E extractor \in ExtractorNames : Register(extractor)
  \/ \E file_meta \in FileMetas : GetExtractor(file_meta)

SpecRegistry == InitRegistry /\ [][NextRegistry]_vars

\* the positions in _extractors of the extractors that declare mime
Declaring(mime) ==
  {i \in DOMAIN registry._extractors :
     \E k \in DOMAIN ExtractorPool[registry._extractors[i]].mime_types :
        ExtractorPool[registry._extractors[i]].mime_types[k] = mime}

\* the positions in _extractors of the extractors that accept file_meta
Accepting(file_meta) ==
  {i \in DOMAIN registry._extractors :
     file_meta \in ExtractorPool[registry._extractors[i]].accepts}

\* C21: get_extractor answers with an extractor registered for the exact
\* MIME type of the file whenever there is one (the one registered last, if
\* several declare it), whatever the registration order and whatever other
\* extractor accepts the file; failing that, with the earliest registered
\* extractor whose can_extract accepts the file; failing that, with none
C21_ExactMimeThenFirstAccepting ==
  lookup.pc = "returned" =>
    LET declaring == Declaring(lookup.file_meta.mimeType)
        accepting == Accepting(lookup.file_meta)
    IN  /\ declaring # {} =>
             /\ lookup.result \in {registry._extractors[i] : i \in declaring}
             /\ lookup.result =
                  registry._extractors[CHOOSE i \in declaring : \A j \in declaring : j <= i]
        /\ (declaring = {} /\ accepting # {}) =>
             lookup.result =
               registry._extractors[CHOOSE i \in accepting : \A j \in accepting : i <= j]
        /\ (declaring = {} /\ accepting = {}) => lookup.result = "None"

\* C21 witness: fallback, which accepts every file, was registered before
\* pdf; a lookup for an application/pdf file answered pdf
C21_Witness ==
  /\ lookup.pc = "returned"
  /\ registry._extractors = << "fallback", "pdf" >>
  /\ lookup.file_meta.mimeType = "application/pdf"
  /\ lookup.result = "pdf"

\* C22: one MIME type maps to one extractor for good: a register call never
\* changes the extractor an already claimed MIME type maps to (a
\* conflicting registration is rejected and leaves the registry as it was)
C22_MimeClaimedOnce ==
  [][\A mime \in DOMAIN registry._mime_map :
       \/ registry'._mime_map[mime] = registry._mime_map[mime]
       \/ registry' = registry]_vars


(***************************************************************************)
(* providers/google_drive/clients.py:23-80  the thread-local credentials   *)
(* and API clients of one thread.  A slot holds TRUE once its attribute is *)
(* set.  creating credentials and building a client may fail.              *)
(***************************************************************************)
\* clients.py:17-22
Apis == {"drive", "docs", "sheets", "slides"}

\* clients.py:23
_CLIENT_ATTRS == {"creds"} \cup Apis

\* the `apis` arguments of get_thread_clients: its default, and shorter ones
ApiLists == {<< "drive", "docs", "sheets", "slides" >>, << "drive" >>, << "docs", "sheets" >>}

\* clients.py:28-31
_clear_thread_clients(slots) == [attr \in _CLIENT_ATTRS |-> FALSE]

\* a call of get_thread_clients (kind "clients") or of get_thread_client
\* alone (kind "client") at its first statement.  built (history): the
\* slots the call has set; after_failure (history): the call before this
\* one on the thread was a get_thread_clients call that raised
NewClientsCall(kind, apis, after_failure) ==
  [pc |-> "client", kind |-> kind, apis |-> apis, idx |-> 1, built |-> {},
   after_failure |-> after_failure]

InitClients ==
  /\ stop_event = FALSE
  /\ signal_sets = 0
  /\ thread_local = [attr \in _CLIENT_ATTRS |-> FALSE]
  /\ gtc = NoClientsCall
  /\ IngestAtRest
  /\ LimiterAtRest
  /\ BackoffAtRest
  /\ ListingAtRest
  /\ RegistryAtRest
  /\ CollectionAtRest
  /\ chunking = NoChunking
  /\ BuiltinExtractors
  /\ ProgressAtRest

ClientsFrame ==
  UNCHANGED << stop_event, signal_sets, ingest_vars, limiter_vars, backoff_vars, listing_vars,
               registry_vars, collection_vars, chunking, extractor_bags, prog >>

\* clients.py:70-77, 51: the thread calls get_thread_clients(apis), or
\* get_thread_client(api) directly as provider.py:45 does
ClientsCall ==
  /\ gtc.pc \in {"idle", "returned", "raised"}
  /\ \/ \E apis \in ApiLists :
          gtc' = NewClientsCall("clients", apis,
                                gtc.pc = "raised" /\ gtc.kind = "clients")
     \/ \E api \in Apis : gtc' = NewClientsCall("client", << api >>, FALSE)
  /\ thread_local' = thread_local
  /\ ClientsFrame

\* the call goes on to the next api of the tuple, or returns
next_api(call) ==
  IF call.idx < Len(call.apis)
    THEN [call EXCEPT !.pc = "client", !.idx = call.idx + 1]
    ELSE [call EXCEPT !.pc = "returned"]

\* clients.py:54-58: get_thread_client finds its client cached or goes on to
\* the credentials
GetCached ==
  /\ gtc.pc = "client"
  /\ gtc' = IF thread_local[gtc.apis[gtc.idx]] THEN next_api(gtc)
            ELSE [gtc EXCEPT !.pc = "creds"]
  /\ thread_local' = thread_local
  /\ ClientsFrame

\* mutant of on_clients_failure: the except clause of get_thread_clients
\* does not clear the slots
on_clients_failure_keep(slots) == slots

\* clients.py:78-80: the slots after get_thread_clients caught an error
on_clients_failure(slots) == _clear_thread_clients(slots)

\* mutant of raised_with: a failed get_thread_client call clears the slots
\* as get_thread_clients does
raised_with_always_cleared(call, slots) == on_clients_failure(slots)

\* the slots when an error leaves the call: get_thread_clients clears
\* them, a bare get_thread_client call does not
raised_with(call, slots) == IF call.kind = "clients" THEN on_clients_failure(slots) ELSE slots

\* clients.py:34-48: _get_thread_creds returns the cached credentials or
\* creates them; when that fails every slot is cleared (line 44) and the
\* error propagates
GetCreds ==
  /\ gtc.pc = "creds"
  /\ \/ /\ thread_local["creds"]
        /\ gtc' = [gtc EXCEPT !.pc = "build"]
        /\ thread_local' = thread_local
     \/ /\ ~thread_local["creds"]
        /\ gtc' = [gtc EXCEPT !.pc = "build", !.built = gtc.built \cup {"creds"}]
        /\ thread_local' = [thread_local EXCEPT !["creds"] = TRUE]
     \/ /\ ~thread_local["creds"]
        /\ gtc' = [gtc EXCEPT !.pc = "raised"]
        /\ thread_local' = raised_with(gtc, _clear_thread_clients(thread_local))
  /\ ClientsFrame

\* clients.py:59-67: build(api, ...); when it fails the api's own slot is
\* deleted if set (it is not) and the error propagates
BuildClient ==
  /\ gtc.pc = "build"
  /\ LET api == gtc.apis[gtc.idx]
     IN  \/ /\ gtc' = next_api([gtc EXCEPT !.built = gtc.built \cup {api}])
            /\ thread_local' = [thread_local EXCEPT ![api] = TRUE]
         \/ /\ gtc' = [gtc EXCEPT !.pc = "raised"]
            /\ thread_local' = raised_with(gtc, [thread_local EXCEPT ![api] = FALSE])
  /\ ClientsFrame

NextClients ==
  \/ ClientsCall
  \/ GetCached
  \/ GetCreds
  \/ BuildClient

SpecClients == InitClients /\ [][NextClients]_vars

\* C23: when get_thread_clients ends with an error, every thread-local slot
\* (credentials and every API client, those built earlier included) is
\* unset; hence the next get_thread_clients call of the thread, when it
\* returns, has created the credentials and built every requested client
\* anew
C23_ClearedOnPartialFailure ==
  /\ (gtc.pc = "raised" /\ gtc.kind = "clients") =>
        \A attr \in _CLIENT_ATTRS : ~thread_local[attr]
  /\ (gtc.pc = "returned" /\ gtc.kind = "clients" /\ gtc.after_failure) =>
        gtc.built = {"creds"} \cup Range(gtc.apis)

\* C23 witness: a get_thread_clients call raised; the call for the four
\* APIs that followed on the thread has returned, having created the
\* credentials and built all four clients itself
C23_Witness ==
  /\ gtc.pc = "returned"
  /\ gtc.kind = "clients"
  /\ gtc.after_failure
  /\ gtc.apis = << "drive", "docs", "sheets", "slides" >>
  /\ gtc.built = _CLIENT_ATTRS
  /\ \A attr \in _CLIENT_ATTRS : thread_local[attr]


(***************************************************************************)
(* rag.py:30-48  RAGStore._ensure_collection against the remote            *)
(* collection settings.QDRANT_COLLECTION.                                  *)
(***************************************************************************)
\* largest vector size
MaxDim == 2

\* rag.py:45
IndexFields == << "file_id", "modified_time", "source" >>

\* the remote without the collection
NoCollection == [exists |-> FALSE, size |-> 0, indexes |-> {}]

\* the states the remote may be in when the store is constructed
Remotes ==
  {NoCollection} \cup
    [exists : {TRUE}, size : 1..MaxDim, indexes : SUBSET Range(IndexFields)]

\* outcomes of client.get_collection other than success and 404: a 5xx
\* response, a failure to connect
OtherErrors == {"500", "ConnectError"}

\* an _ensure_collection(vector_size) call at its first statement.  probe:
\* the outcome of get_collection, "" before the call; creates, index_calls
\* (history): create_collection and create_payload_index calls made
NewEnsure(vector_size) ==
  [pc |-> "probe", vector_size |-> vector_size, probe |-> "", error |-> "",
   creates |-> 0, index_calls |-> 0]

InitCollection ==
  /\ stop_event = FALSE
  /\ signal_sets = 0
  /\ qdrant \in Remotes
  /\ \E vector_size \in 1..MaxDim : ens = NewEnsure(vector_size)
  /\ IngestAtRest
  /\ LimiterAtRest
  /\ BackoffAtRest
  /\ ListingAtRest
  /\ RegistryAtRest
  /\ ClientsAtRest
  /\ chunking = NoChunking
  /\ BuiltinExtractors
  /\ ProgressAtRest

CollectionFrame ==
  UNCHANGED << stop_event, signal_sets, ingest_vars, limiter_vars, backoff_vars, listing_vars,
               registry_vars, clients_vars, chunking, extractor_bags, prog >>

\* rag.py:36-37: where the call goes after `except Exception: pass`,
\* whatever the error was
after_probe_error(error) == "create"

\* rag.py:33-37: get_collection succeeds when the collection is there,
\* answers 404 when it is not, or fails otherwise
Probe ==
  /\ ens.pc = "probe"
  /\ \/ /\ qdrant.exists
        /\ ens' = [ens EXCEPT !.pc = "returned", !.probe = "ok"]
     \/ /\ ~qdrant.exists
        /\ ens' = [ens EXCEPT !.pc = after_probe_error("404"), !.probe = "404"]
     \/ \E error \in OtherErrors :
          ens' = [ens EXCEPT !.pc = after_probe_error(error), !.probe = error]
  /\ qdrant' = qdrant
  /\ CollectionFrame

\* rag.py:39-42: create_collection; the remote refuses to create a
\* collection that exists, and any remote call may fail
CreateCollection ==
  /\ ens.pc = "create"
  /\ \/ /\ ~qdrant.exists
        /\ qdrant' = [exists |-> TRUE, size |-> ens.vector_size, indexes |-> {}]
        /\ ens' = [ens EXCEPT !.pc = "index", !.creates = ens.creates + 1]
     \/ /\ qdrant.exists
        /\ qdrant' = qdrant
        /\ ens' = [ens EXCEPT !.pc = "raised", !.error = "409",
                              !.creates = ens.creates + 1]
     \/ \E error \in OtherErrors :
          /\ qdrant' = qdrant
          /\ ens' = [ens EXCEPT !.pc = "raised", !.error = error,
                                !.creates = ens.creates + 1]
  /\ CollectionFrame

\* rag.py:45-48: one round of the loop over the three index fields
CreateIndex ==
  /\ ens.pc = "index"
  /\ LET field == IndexFields[ens.index_calls + 1]
         n == ens.index_calls + 1
     IN  \/ /\ qdrant' = [qdrant EXCEPT !.indexes = qdrant.indexes \cup {field}]
            /\ ens' = [ens EXCEPT !.index_calls = n,
                                  !.pc = IF n = Len(IndexFields) THEN "returned" ELSE "index"]
         \/ \E error \in OtherErrors :
              /\ qdrant' = qdrant
              /\ ens' = [ens EXCEPT !.pc = "raised", !.error = error, !.index_calls = n]
  /\ CollectionFrame

NextCollection ==
  \/ Probe
  \/ CreateCollection
  \/ CreateIndex

SpecCollection == InitCollection /\ [][NextCollection]_vars

\* C24: _ensure_collection creates the collection and its indexes if and
\* only if get_collection failed with 404: after a successful get_collection
\* nothing is created; after any other error nothing is created and the call
\* ends by raising that error; after a 404 a call that returns has created
\* the collection and the three indexes
C24_CreateOnlyOn404 ==
  /\ ens.probe = "ok" =>
       ens.pc = "returned" /\ ens.creates = 0 /\ ens.index_calls = 0
  /\ ens.probe \in OtherErrors =>
       ens.pc = "raised" /\ ens.creates = 0 /\ ens.index_calls = 0
  /\ (ens.probe = "404" /\ ens.pc = "returned") =>
       ens.creates = 1 /\ ens.index_calls = Len(IndexFields)


(***************************************************************************)
(* rag.py:50-64  RAGStore.chunk_text, called on its own with arguments     *)
(* drawn from small sets.                                                  *)
(***************************************************************************)
\* longest text
MaxTextLen == 4
\* largest max_chars
MaxChars == 3
\* largest overlap; it exceeds MaxChars
MaxOverlap == 4

\* the characters of the texts: two letters and the two kinds of whitespace
Alphabet == {"a", "b", " ", "\n"}

ChunkInputs == UNION {[1..n -> Alphabet] : n \in 0..MaxTextLen}

InitChunk ==
  /\ stop_event = FALSE
  /\ signal_sets = 0
  /\ \E text \in ChunkInputs, max_chars \in 1..MaxChars, overlap \in 0..MaxOverlap :
        chunking = [pc |-> "call", text |-> text, max_chars |-> max_chars,
                    overlap |-> overlap, chunks |-> << >>]
  /\ IngestAtRest
  /\ LimiterAtRest
  /\ BackoffAtRest
  /\ ListingAtRest
  /\ RegistryAtRest
  /\ ClientsAtRest
  /\ CollectionAtRest
  /\ BuiltinExtractors
  /\ ProgressAtRest

\* rag.py:50-64: the call runs and returns its list
ChunkText ==
  /\ chunking.pc = "call"
  /\ chunking' = [chunking EXCEPT !.pc = "returned",
                                  !.chunks = chunk_text(chunking.text, chunking.max_chars,
                                                        chunking.overlap)]
  /\ UNCHANGED << stop_event, signal_sets, ingest_vars, limiter_vars, backoff_vars, listing_vars,
                  registry_vars, clients_vars, collection_vars, extractor_bags, prog >>

NextChunk == ChunkText

SpecChunk == InitChunk /\ [][NextChunk]_vars

\* the first n characters of each chunk, concatenated
RECURSIVE Heads(_, _)
Heads(chunks, n) ==
  IF chunks = << >> THEN << >>
  ELSE SubSeq(chunks[1], 1, IF n < Len(chunks[1]) THEN n ELSE Len(chunks[1]))
       \o Heads(Tail(chunks), n)

\* C25: for every text, max_chars >= 1 and overlap >= 0, chunk_text returns
\* and, with N the whitespace-collapsed text and stride the larger of 1 and
\* max_chars - overlap: chunk k (counted from 0) is N[k*stride : k*stride +
\* max_chars]; no chunk is longer than max_chars; the first `stride`
\* characters of every chunk followed by the rest of the last chunk spell N;
\* a blank text gives no chunk; a text N no longer than max_chars gives the
\* one chunk N
C25_ChunksAreStrideSlices ==
  chunking.pc = "returned" =>
    LET N == join(split(chunking.text))
        max_chars == chunking.max_chars
        d == max_chars - chunking.overlap
        stride == IF d >= 1 THEN d ELSE 1
        chunks == chunking.chunks
        last == chunks[Len(chunks)]
    IN  /\ \A k \in 0..(Len(chunks) - 1) :
             /\ chunks[k + 1] =
                  SubSeq(N, k * stride + 1,
                         IF k * stride + max_chars < Len(N) THEN k * stride + max_chars
                         ELSE Len(N))
             /\ Len(chunks[k + 1]) <= max_chars
        /\ chunks # << >> =>
             Heads(chunks, stride) \o SubSeq(last, stride + 1, Len(last)) = N
        /\ (\A i \in DOMAIN chunking.text : chunking.text[i] \in {" ", "\n"}) =>
             chunks = << >>
        /\ (N # << >> /\ Len(N) <= max_chars) => chunks = << N >>

\* C25 witness: the text "a  b", which collapses to "a b", with max_chars 2
\* and overlap 3 (more than max_chars) came back as the three chunks "a ",
\* " b", "b"
C25_Witness ==
  /\ chunking.pc = "returned"
  /\ chunking.text = << "a", " ", " ", "b" >>
  /\ chunking.max_chars = 2
  /\ chunking.overlap = 3
  /\ chunking.chunks = << << "a", " " >>, << " ", "b" >>, << "b" >> >>


(***************************************************************************)
(* The stop event across the ingestion service: signal handler, scheduler  *)
(* and workers.                                                            *)
(***************************************************************************)
\* C26: once the stop event is set no step of the signal handler, the
\* scheduler or a worker clears it, and a termination signal delivered
\* while it is set makes no further stop_event.set() call
C26_StopMonotoneOneShot ==
  [][stop_event => (stop_event' /\ signal_sets' = signal_sets)]_vars

\* C26 witness: the handler set the event once; afterwards a worker ended
\* with ShutdownRequested, the scheduler collected it (and called
\* stop_event.set() itself), and the run reached ingest_done with the
\* event still set
C26_Witness ==
  /\ stop_event
  /\ signal_sets = 1
  /\ loop_pc = "ingest_done"
  /\ \E i \in DOMAIN tasks :
        tasks[i].pc = "collected" /\ tasks[i].result = "ShutdownRequested"


(***************************************************************************)
(* The byte cap of the extractors within the per-file pipeline.            *)
(***************************************************************************)
\* the store calls that write
WritingCalls == {"delete_by_file_id", "upsert_document"}

\* what holds of a task whose file was above the cap when extract read its
\* size, up to the status the pipeline returns: extract made no download
\* and returned the empty text with metadata skipped = size_limit and the
\* size; the task made neither a delete nor an upsert call
RefusedEarly(i) ==
  /\ ~tasks[i].downloaded
  /\ tasks[i].pc \in {"post", "finished"}
  /\ tasks[i].pc = "post" =>
        /\ Texts[tasks[i].text] = << >>
        /\ tasks[i].metadata.skipped = "size_limit"
        /\ tasks[i].metadata.size_bytes > ByteCap
  /\ \A k \in DOMAIN tasks[i].calls : tasks[i].calls[k] \notin WritingCalls

\* C27 as stated: a file whose size exceeds the extractor's byte cap is
\* refused without a download, with the empty text and metadata skipped =
\* size_limit and the size, and the pipeline then returns skipped_empty
\* for it without a delete or an upsert
C27_OversizeSkippedEmpty ==
  \A i \in DOMAIN tasks :
     tasks[i].oversize =>
        /\ RefusedEarly(i)
        /\ tasks[i].pc = "finished" => tasks[i].result = "skipped_empty"

\* C27 amended: as stated, except that the pipeline returns
\* skipped_stopped instead of skipped_empty when the stop event is set by
\* the time extract has returned (service.py:134-135); in both cases
\* without a delete or an upsert
C27_OversizeSkippedEmptyOrStopped ==
  \A i \in DOMAIN tasks :
     tasks[i].oversize =>
        /\ RefusedEarly(i)
        /\ tasks[i].pc = "finished" =>
              \/ tasks[i].result = "skipped_empty"
              \/ tasks[i].result = "skipped_stopped" /\ stop_event

\* C27 witness: a file indexed by an earlier run is now above the cap; its
\* task ended skipped_empty without a download, and the points of the
\* file are still in the store
C27_Witness ==
  \E i \in DOMAIN tasks :
     /\ tasks[i].pc = "finished"
     /\ tasks[i].oversize
     /\ ~tasks[i].downloaded
     /\ tasks[i].result = "skipped_empty"
     /\ ~stop_event
     /\ IdsOf(store, files[i].id) # {}


(***************************************************************************)
(* The counters of run_once.                                               *)
(***************************************************************************)
\* service.py:194: the status counters
StatusCounters == {"ok", "fail", "skipped_unchanged", "skipped_empty",
                   "skipped_unsupported", "skipped_stopped"}

\* C28: whenever run_once can report (each progress event, ingest_done) the
\* six status counters add up to completed, which is at most total; the
\* counters change only in a step of the scheduler thread, and the step
\* that collects a task adds one to completed and one to exactly one
\* status counter
C28_CountersAddUp ==
  /\ [](StatusSum = stats.completed /\ stats.completed <= total)
  /\ [][stats' # stats =>
          \/ /\ loop_pc = "collect"
             /\ stats'.completed = stats.completed + 1
             /\ \E c \in StatusCounters :
                   /\ stats'[c] = stats[c] + 1
                   /\ \A o \in StatusCounters \ {c} : stats'[o] = stats[o]
          \/ /\ loop_pc = "ingest_done"
             /\ stats' = ZeroStats]_vars

\* C28 witness: a run of two files is at ingest_done with one file indexed
\* and the other counted as unsupported
C28_Witness ==
  /\ loop_pc = "ingest_done"
  /\ total = 2
  /\ stats.completed = 2
  /\ stats.ok = 1
  /\ stats.skipped_unsupported = 1


(***************************************************************************)
(* ShutdownRequested out of a worker.                                      *)
(***************************************************************************)
\* the tasks of the run collected with ShutdownRequested
ShutdownCollected(tk) ==
  {i \in DOMAIN tk : tk[i].pc = "collected" /\ tk[i].result = "ShutdownRequested"}

\* C29: the step that collects a task ended by ShutdownRequested leaves the
\* stop event set and adds the task to skipped_stopped, not to fail; from
\* then on the run submits no task, its tasks still in flight are collected
\* before it ends, and run_once ends at ingest_done, not by an error
C29_WorkerShutdownDrains ==
  /\ [][\A i \in ShutdownCollected(tasks') \ ShutdownCollected(tasks) :
          /\ stop_event'
          /\ stats'.skipped_stopped = stats.skipped_stopped + 1
          /\ stats'.fail = stats.fail]_vars
  /\ [][ShutdownCollected(tasks) # {} =>
          /\ \A i \in DOMAIN tasks \cap DOMAIN tasks' :
                tasks[i].pc = "idle" => tasks'[i].pc = "idle"
          /\ loop_pc' \in {"collect", "wait", "ingest_done", "poll"}
          /\ loop_pc' = "poll" => loop_pc = "ingest_done"]_vars
  /\ []((ShutdownCollected(tasks) # {} /\ loop_pc = "ingest_done") =>
          /\ in_flight = {}
          /\ \A i \in Submitted : tasks[i].pc = "collected"
          /\ list_error = "")

\* C29 witness: two tasks were in flight; one ended with ShutdownRequested
\* and was counted as skipped_stopped, the other was still collected, as
\* ok, and the run is at ingest_done
C29_Witness ==
  /\ loop_pc = "ingest_done"
  /\ stats.skipped_stopped = 1
  /\ stats.fail = 0
  /\ stats.ok = 1
  /\ \E i, j \in DOMAIN tasks :
        /\ tasks[i].pc = "collected" /\ tasks[i].result = "ShutdownRequested"
        /\ tasks[j].pc = "collected" /\ tasks[j].result = "ok"


(***************************************************************************)
(* What _ingest_one_file leaves alone when it does not index.              *)
(***************************************************************************)
\* the statuses other than ok
NotIndexed == Statuses \ {"ok"}

\* C30: a call of _ingest_one_file that returns a status other than ok has
\* made neither a delete_by_file_id nor an upsert_document call, and the
\* step in which it returns leaves the store as it is: the points stored
\* for the file are not touched by the call
C30_NoWriteUnlessOk ==
  /\ [](\A i \in DOMAIN tasks :
          (tasks[i].pc = "finished" /\ tasks[i].result \in NotIndexed) =>
             /\ \A k \in DOMAIN tasks[i].calls : tasks[i].calls[k] \notin WritingCalls
             /\ tasks[i].before = {})
  /\ [][\A i \in DOMAIN tasks \cap DOMAIN tasks' :
          (tasks[i].pc # "finished" /\ tasks'[i].pc = "finished"
             /\ tasks'[i].result \in NotIndexed) => store' = store]_vars

\* C30 witness: the extractor failed on a file indexed by an earlier run;
\* the call returned failed and the points of the file are in the store
C30_Witness ==
  \E i \in DOMAIN tasks :
     /\ tasks[i].pc = "finished"
     /\ tasks[i].result = "failed"
     /\ tasks[i].extracted
     /\ IdsOf(store, files[i].id) # {}


(***************************************************************************)
(* Versions of one file in the store.                                      *)
(***************************************************************************)
\* the modified_time values carried by the points stored under file_id
VersionsOf(st, file_id) ==
  {st[p].payload["modified_time"] : p \in IdsOf(st, file_id)}

\* C31: when run_once ends, all points stored under one file_id carry the
\* same modified_time
C31_OneVersionPerFile ==
  loop_pc = "ingest_done" =>
     \A fid \in FileIds : Cardinality(VersionsOf(store, fid)) <= 1


(***************************************************************************)
(* What a completed _ensure_collection leaves at the remote.               *)
(***************************************************************************)
\* C32: when _ensure_collection has returned, the collection exists and has
\* a payload index on each of file_id, modified_time and source, also when
\* the remote was left with the collection and a part of the indexes by an
\* earlier attempt
C32_ReturnedMeansIndexed ==
  ens.pc = "returned" =>
     /\ qdrant.exists
     /\ \A k \in DOMAIN IndexFields : IndexFields[k] \in qdrant.indexes


(***************************************************************************)
(* The ingestion service with extractors beyond the ones of this           *)
(* repository: ExtractedContent.metadata is a dict[str, Any]               *)
(* (extractors/base.py:12) and register_extractor accepts any Extractor,   *)
(* so a bag may hold a key the payload of service.py:137-143 also sets.    *)
(***************************************************************************)
\* bags of registered extractors: the bag of the built-in ones, and a bag
\* with the key modified_time (a date read from the document itself)
AnyBags == MetadataBags \cup { [modified_time |-> "m0"] }

\* one pool thread, any extractor registered
InitAnyExtractor ==
  /\ stop_event = FALSE
  /\ signal_sets = 0
  /\ store = << >>
  /\ INGEST_WORKERS = 1
  /\ loop_pc = "loop_test"
  /\ list_error = ""
  /\ files = << >>
  /\ total = 0
  /\ workers = 0
  /\ it = 0
  /\ in_flight = {}
  /\ done = {}
  /\ submitted_up_front = 0
  /\ stats = ZeroStats
  /\ tasks = << >>
  /\ LimiterAtRest
  /\ BackoffAtRest
  /\ ListingAtRest
  /\ RegistryAtRest
  /\ ClientsAtRest
  /\ CollectionAtRest
  /\ chunking = NoChunking
  /\ extractor_bags = AnyBags
  /\ ProgressAtRest

SpecAnyExtractor == InitAnyExtractor /\ [][Next]_vars

\* C33: when _ingest_one_file returns ok for a descriptor with a
\* modified_time, exists_file_mtime(file.id, modified_time) is true in the
\* store it leaves, whatever metadata bag the extractor returned; and a
\* call that finds exists_file_mtime true returns skipped_unchanged and
\* leaves the store as it is, so a run over the same listing writes nothing
C33_OkIsFixedPoint ==
  [][\A i \in DOMAIN tasks \cap DOMAIN tasks' :
       /\ ( /\ tasks[i].pc = "upsert"
            /\ tasks'[i].result = "ok"
            /\ checks_mtime(files[i].modified_time) )
          => exists_file_mtime(store', files[i].id, files[i].modified_time)
       /\ ( /\ tasks[i].pc = "exists"
            /\ tasks'[i] # tasks[i]
            /\ tasks'[i].result # "Exception"
            /\ checks_mtime(files[i].modified_time)
            /\ exists_file_mtime(store, files[i].id, files[i].modified_time) )
          => /\ tasks'[i].result = "skipped_unchanged"
             /\ store' = store]_vars


(***************************************************************************)
(* The rate the limiter lets through.                                      *)
(***************************************************************************)
RECURSIVE sum_of(_, _)
sum_of(f, keys) ==
  IF keys = {} THEN 0
  ELSE LET k == CHOOSE x \in keys : TRUE IN f[k] + sum_of(f, keys \ {k})

\* how many acquire() calls returned with the clock in [s, e]
ReturnsIn(s, e) == sum_of(granted.at, DOMAIN granted.at \cap s..e)

\* how many acquire() calls returned having read a clock value in [s, e]
\* under the lock (limiter.py:28)
GrantsIn(s, e) == sum_of(granted.read, DOMAIN granted.read \cap s..e)

\* C34 as stated: over the threads sharing one limiter, the acquire() calls
\* that returned within a window of length T are at most burst + rate * T,
\* for every window; in token units, TokenUnit per call
C34_RateBounded ==
  \A s \in 0..MaxClock, e \in 0..MaxClock :
     s <= e => TokenUnit * ReturnsIn(s, e) <= capacity + rate * (e - s)

\* C34, amended: the acquire() calls that returned and whose clock reading
\* under the lock falls within a window of length T are at most
\* burst + rate * T, for every window
C34_RateBoundedAtReading ==
  \A s \in 0..MaxClock, e \in 0..MaxClock :
     s <= e => TokenUnit * GrantsIn(s, e) <= capacity + rate * (e - s)

\* C34 witness: a window of three ticks in which as many calls returned as
\* the bound allows, made by two threads, the bucket having been refilled
C34_Witness ==
  /\ acq # << >>
  /\ \A t \in DOMAIN acq : acq[t].pc = "returned"
  /\ \E s \in 0..MaxClock :
        /\ s + 3 <= MaxClock
        /\ TokenUnit * GrantsIn(s, s + 3) = capacity + rate * 3
        /\ GrantsIn(s, s + 3) >= 3


InitAcquireAlone ==
  /\ stop_event = FALSE
  /\ signal_sets = 0
  /\ \E r \in 1..MaxRate, b \in TokenUnit..(MaxBurst * TokenUnit) :
        RateLimiterInit(r, b, 0)
  /\ acq = [t \in {1} |-> NoAcquire]
  /\ IngestAtRest
  /\ BackoffAtRest
  /\ ListingAtRest
  /\ LibraryAtRest

SpecAcquireAlone == InitAcquireAlone /\ [][NextLimiter]_vars

\* C36: with no other acquirer active, acquire waits at most once; the
\* timeout of that wait, needed / rate, is at most 1 / rate (TokenUnit
\* units over `rate` units per tick) and never below the settings' floor
\* 1 / _MAX_RPS = 0.001 s; and while the stop event is not set the refill
\* that follows the wait finds a whole token, so the call returns
C36_OneWaitAlone ==
  /\ [](\A t \in DOMAIN acq :
          /\ acq[t].waits <= 1
          /\ acq[t].pc = "wait" =>
                (0 < acq[t].needed /\ acq[t].needed <= TokenUnit))
  /\ [][\A t \in DOMAIN acq :
          (acq[t].pc = "take" /\ acq[t].waits = 1 /\ acq'[t] # acq[t])
             => (acq'[t].pc = "returned" /\ acq'[t].took = 1)]_vars

\* C36 witness: the thread found the bucket empty, waited once and
\* returned with the token of the refill
C36_Witness ==
  /\ ~stop_event
  /\ DOMAIN acq = {1}
  /\ acq[1].pc = "returned"
  /\ acq[1].waits = 1
  /\ acq[1].took = 1
  /\ acq[1].needed = TokenUnit


(***************************************************************************)
(* The delays of execute_with_backoff, in tenths of a tick.                *)
(***************************************************************************)
\* min(max_delay, base_delay * 2^(k-1)), written out
CappedDelay(k) ==
  IF max_delay < base_delay * 2^(k - 1) THEN max_delay ELSE base_delay * 2^(k - 1)

\* C37: the delay set before retry number k is min(max_delay,
\* base_delay * 2^(k-1)) times a jitter factor of [0.7, 1.3); the delays
\* before jitter do not decrease with k and never exceed max_delay
C37_DelaySchedule ==
  /\ [][bo'.attempt > bo.attempt =>
          /\ bo'.attempt = bo.attempt + 1
          /\ 7 * CappedDelay(bo'.attempt) <= bo'.delay
          /\ bo'.delay < 13 * CappedDelay(bo'.attempt)]_vars
  /\ [](\A k \in 1..retries :
          /\ backoff_delay(k, 10) = 10 * CappedDelay(k)
          /\ backoff_delay(k, 10) <= 10 * max_delay
          /\ k < retries => backoff_delay(k, 10) <= backoff_delay(k + 1, 10))

\* C37 witness: the second retry waits longer than the first did and is
\* held at max_delay, with the largest jitter
C37_Witness ==
  /\ bo.pc = "sleep"
  /\ bo.attempt = 2
  /\ base_delay < max_delay
  /\ max_delay < 2 * base_delay
  /\ bo.delay = 12 * max_delay


(***************************************************************************)
(* core/ingest/service.py:196-303  The progress events of run_once.  The   *)
(* futures are reduced to their number: how many are in flight, how many   *)
(* of them wait() handed back, how many files are not yet submitted.  The  *)
(* clock is time.time() in seconds; a wait() that times out lasts its      *)
(* timeout of 1.0 s.                                                       *)
(***************************************************************************)
\* most files of a run
MaxProgressFiles == 3
\* most pool threads of a run
MaxProgressWorkers == 2
\* largest INGEST_PROGRESS_FILES
MaxProgressEvery == 2
\* largest INGEST_PROGRESS_SECONDS
MaxProgressSeconds == 3
\* last reading of the clock
MaxProgressClock == 5

\* service.py:256: the timeout of wait(), in seconds
wait_timeout == 1

\* service.py:218-226: whether progress(force) logs the event
progress_logs(force, completed, now, last_progress_ts, every, seconds) ==
  ~ ( /\ ~force
      /\ completed % every # 0
      /\ now - last_progress_ts < seconds )

\* service.py:218-247: progress(force) called at time now with the given
\* completed count; `after_task` tells the call after `completed += 1` from
\* the one after a timeout
progress(r, force, after_task, completed, now) ==
  IF progress_logs(force, completed, now, r.last_progress_ts,
                   r.INGEST_PROGRESS_FILES, r.INGEST_PROGRESS_SECONDS)
  THEN [r EXCEPT !.last_progress_ts = now,
                 !.events = @ + 1,
                 !.forced = IF force THEN @ + 1 ELSE @,
                 !.last = [at |-> now, since |-> now - r.last_progress_ts,
                           force |-> force, collected |-> after_task,
                           completed |-> completed]]
  ELSE r

NoEvent == [at |-> 0, since |-> 0, force |-> FALSE, collected |-> FALSE, completed |-> 0]

ProgressFrame ==
  UNCHANGED << stop_event, signal_sets, ingest_vars, limiter_vars, backoff_vars, listing_vars,
               registry_vars, clients_vars, collection_vars, chunking, extractor_bags >>

InitProgress ==
  /\ stop_event = FALSE
  /\ signal_sets = 0
  /\ \E every \in 1..MaxProgressEvery, seconds \in 1..MaxProgressSeconds :
       prog = [pc |-> "call", INGEST_PROGRESS_FILES |-> every,
               INGEST_PROGRESS_SECONDS |-> seconds, stop |-> FALSE,
               left |-> 0, in_flight |-> 0, done |-> 0, completed |-> 0,
               now |-> 0, last_progress_ts |-> 0,
               events |-> 0, forced |-> 0, last |-> NoEvent]
  /\ IngestAtRest
  /\ LimiterAtRest
  /\ BackoffAtRest
  /\ ListingAtRest
  /\ RegistryAtRest
  /\ ClientsAtRest
  /\ CollectionAtRest
  /\ chunking = NoChunking
  /\ BuiltinExtractors

\* service.py:172-197, 251-253: total > 0 files, workers = min(INGEST_WORKERS,
\* total), the counters at zero, last_progress_ts = time.time(), and the
\* up-front submissions
ProgressRun ==
  /\ prog.pc = "call"
  /\ \E n \in 1..MaxProgressFiles, w \in 1..MaxProgressWorkers :
       LET k == IF w < n THEN w ELSE n
       IN  prog' = [prog EXCEPT !.pc = "wait", !.left = n - k, !.in_flight = k,
                                !.last_progress_ts = prog.now]
  /\ ProgressFrame

\* service.py:255-259: wait() times out with nothing done; progress(force=False)
ProgressWaitTimeout ==
  /\ prog.pc = "wait"
  /\ prog.in_flight > 0
  /\ prog.now + wait_timeout <= MaxProgressClock
  /\ LET now == prog.now + wait_timeout
     IN  prog' = progress([prog EXCEPT !.now = now], FALSE, FALSE, prog.completed, now)
  /\ ProgressFrame

\* service.py:255-256: wait() hands back the futures that are done, at once
\* or within its timeout
ProgressWaitDone ==
  /\ prog.pc = "wait"
  /\ prog.in_flight > 0
  /\ \E d \in 1..prog.in_flight, now \in prog.now..(prog.now + wait_timeout) :
       /\ now <= MaxProgressClock
       /\ prog' = [prog EXCEPT !.pc = "collect", !.done = d, !.now = now]
  /\ ProgressFrame

\* service.py:261-301: one future of `done`: completed += 1,
\* progress(force=False), submit_one; stop tells whether the stop event is
\* set by then
ProgressCollect ==
  /\ prog.pc = "collect"
  /\ \E s \in BOOLEAN :
       LET stop == prog.stop \/ s
           completed == prog.completed + 1
           submits == ~stop /\ prog.left > 0
           r == [prog EXCEPT !.stop = stop,
                             !.completed = completed,
                             !.done = @ - 1,
                             !.in_flight = IF submits THEN @ ELSE @ - 1,
                             !.left = IF submits THEN @ - 1 ELSE @,
                             !.pc = IF prog.done = 1 THEN "wait" ELSE "collect"]
       IN  prog' = progress(r, FALSE, TRUE, completed, prog.now)
  /\ ProgressFrame

\* service.py:255, 303: `while in_flight` ends; progress(force=True)
ProgressForced ==
  /\ prog.pc = "wait"
  /\ prog.in_flight = 0
  /\ prog' = progress([prog EXCEPT !.pc = "returned"], TRUE, FALSE, prog.completed, prog.now)
  /\ ProgressFrame

NextProgress ==
  \/ ProgressRun
  \/ ProgressWaitTimeout
  \/ ProgressWaitDone
  \/ ProgressCollect
  \/ ProgressForced

SpecProgress == InitProgress /\ [][NextProgress]_vars

\* C38: a progress event that is not forced is logged only when the
\* completed count has just reached a multiple of INGEST_PROGRESS_FILES or
\* INGEST_PROGRESS_SECONDS have passed since the event before it, so events
\* with no completion between them are that far apart; one forced event
\* follows the last collected task
C38_ProgressThrottled ==
  /\ [][(prog'.events > prog.events /\ ~prog'.last.force) =>
          \/ /\ prog'.completed = prog.completed + 1
             /\ prog'.completed % prog.INGEST_PROGRESS_FILES = 0
          \/ prog'.last.since >= prog.INGEST_PROGRESS_SECONDS]_vars
  /\ [][(prog'.events > prog.events /\ prog.events > 0
          /\ prog'.completed = prog.last.completed) =>
          prog'.last.force \/ prog'.last.at - prog.last.at >= prog.INGEST_PROGRESS_SECONDS]_vars
  /\ [](prog.pc = "returned" => prog.forced = 1)


(***************************************************************************)
(* The life of a cached client.  get_thread_client returns the client of   *)
(* a set slot (clients.py:54-56), so a client is returned unchanged as     *)
(* long as its slot stays set and is not built again.                      *)
(***************************************************************************)
\* a get_thread_client(s) call is under way
ClientsCallRunning == gtc.pc \in {"client", "creds", "build"}

\* the step of a running call keeps every set client slot and builds no
\* client for it
KeepsCached ==
  \A api \in Apis :
    thread_local[api] => thread_local'[api] /\ api \notin gtc'.built \ gtc.built

\* a get_thread_client call made on its own fails in build(): every other
\* slot, the credentials included, is as it was
FailedBuildSparesOthers ==
  (gtc.pc = "build" /\ gtc.kind = "client" /\ gtc'.pc = "raised") =>
    \A attr \in _CLIENT_ATTRS \ {gtc.apis[gtc.idx]} :
      thread_local'[attr] = thread_local[attr]

\* C39: a client built for an API stays cached and is returned unchanged,
\* never rebuilt, by every later get_thread_client / get_thread_clients call
\* of the thread; a failed get_thread_client build of another API leaves
\* the cached clients and credentials in place
C39_CachedForGood ==
  /\ [][ClientsCallRunning => KeepsCached]_vars
  /\ [][FailedBuildSparesOthers]_vars

\* C39 as the code has it: the client stays cached until a
\* get_thread_clients call of the thread ends with an error, which unsets
\* every slot
C39_CachedUntilCleared ==
  /\ [][ClientsCallRunning =>
          \/ KeepsCached
          \/ gtc.kind = "clients" /\ gtc'.pc = "raised"]_vars
  /\ [][FailedBuildSparesOthers]_vars

\* C39 witness: with the drive client cached, get_thread_client for slides
\* failed in build(); the drive client and the credentials are still set
C39_Witness ==
  /\ gtc.pc = "raised"
  /\ gtc.kind = "client"
  /\ gtc.apis = << "slides" >>
  /\ thread_local["drive"]
  /\ thread_local["creds"]
  /\ ~thread_local["slides"]


(***************************************************************************)
(* The file ids one list_files call hands out.                             *)
(***************************************************************************)
\* no folder of the remote lists an id twice among its own children
NoRepeatsWithinFolder(d) ==
  \A f \in Folders : \A i, j \in DOMAIN d[f] : i # j => d[f][i].id # d[f][j].id

\* C40: the walk over the configured folders returns each file id at most
\* once, also for a file that is a child of several visited folders or is
\* reachable from several roots, so that no two tasks of a run_once work
\* on the same file id
C40_EachFileIdOnce ==
  (listing.pc = "returned" /\ listing.mode = "folders" /\ NoRepeatsWithinFolder(drive)) =>
    \A i, j \in DOMAIN listing.result :
      i # j => listing.result[i].id # listing.result[j].id

====
